---- MODULE Spec2Model ----
(***************************************************************************)
(* Model of the Technical Debt Analyzer                                    *)
(* (src/backend/agents/technical_debt/debt_analyzer.py) and of the route   *)
(* that calls it (src/backend/api/debt_router.py).                         *)
(*                                                                         *)
(* Specifications:                                                         *)
(*   Spec       one or more runs of analyze_project over a file tree       *)
(*   FairSpec   one run, with the fairness of a sequential program          *)
(*   ScoreSpec  _calculate_scores applied to bounded issue lists           *)
(*   CxSpec     the two complexity strategies applied to bounded inputs    *)
(*   LongSpec   the two long-function detectors applied to bounded inputs  *)
(*   GodSpec    _analyze_python_complexity applied to bounded classes      *)
(*   DupSpec    _detect_duplication applied to bounded corpora             *)
(*   DepSpec    _analyze_dependencies applied to bounded manifests         *)
(*   CollectSpec  the collection of files (lines 46-50) on bounded trees   *)
(*   RateSpec   RateLimitMiddleware.dispatch (middleware/rate_limit.py)     *)
(*              serving a bounded number of requests                       *)
(*   ConcSpec   requests to POST /analyze on one event loop and the        *)
(*              analyzer they share                                        *)
(*                                                                         *)
(* Conventions: estimated_hours is held in tenths of an hour (the code     *)
(* rounds to one decimal); an absent line number is NoLine.                *)
(***************************************************************************)
EXTENDS Integers, Sequences, FiniteSets, TLC

VARIABLES
    \* ---- Spec: runs of analyze_project
    world,          \* which file tree of the catalogue is on disk (unchanged by a run)
    hash_seed,      \* the process's string hash seed (orders the iteration of sets)
    runs,           \* calls made so far
    faults,         \* exceptions raised so far inside per-file analysis
    args,           \* [specific_files, include_tests, max_depth] of the current call
    pc,             \* position in the route and in analyze_project
    code_files,     \* the collected absolute paths, in order
    file_contents,  \* self.file_contents: <<rel_path, content>> in insertion order
    all_issues,     \* the issue list being built
    files_analyzed, \* the counter of line 76
    idx,            \* index into code_files of the loop that pc names
    failed,         \* the rel_paths whose second-pass iteration raised (line 78)
    unread,         \* the paths whose first-pass iteration raised (line 59)
    outcome,        \* "none", "report" or "http_400"
    report,         \* the dict returned, or None
    prev,           \* [args, outcome, report, clean] of the previous call, or None
    \* ---- ScoreSpec: _calculate_scores(issues, files_analyzed)
    sc_issues,      \* the issue list handed to _calculate_scores
    sc_files,       \* files_analyzed handed to _calculate_scores
    sc_scores,      \* its return value, or None before the call
    \* ---- CxSpec: the complexity strategies on one source file
    cx_input,       \* the file: [lang, ast] (ast.parse's result) or [lang, content]
    cx_pc,          \* "ready", "measured", "called" or "returned"
    cx_measured,    \* the complexity measured for each function found, in order
    cx_issues,      \* the issues returned
    js,             \* the bracket strategy's position in a file (see JsIdle)
    \* ---- LongSpec, GodSpec, DupSpec, DepSpec, CollectSpec: one function called once
    u_input,        \* the arguments (and the files on disk) of the call
    u_pc,           \* "ready", "called" or "returned"
    u_output,       \* the value returned, <<>> before the return
    \* ---- RateSpec: RateLimitMiddleware.dispatch in front of the application
    settings,       \* [RATE_LIMIT_REQUESTS, RATE_LIMIT_WINDOW]
    rate_limit_store, \* client_ip -> [count, window_start], the keys touched so far
    now,            \* what time.time() returns, in seconds
    responses,      \* one entry per request dispatched, in order (history)
    \* ---- ConcSpec: requests served by one event loop on the shared analyzer
    tasks,          \* per request: the position and the locals of its analyze_project call
    running         \* the request whose coroutine the event loop is executing, or 0

scoreVars == <<sc_issues, sc_files, sc_scores>>
cxRest == <<cx_input, cx_pc, cx_measured, cx_issues>>
cxVars == <<cxRest, js>>
envVars == <<world, hash_seed, runs, args, prev>>
runVars == <<envVars, faults, pc, code_files, file_contents, all_issues, files_analyzed,
             idx, failed, unread, outcome, report>>
unitVars == <<u_input, u_pc, u_output>>
rateVars == <<settings, rate_limit_store, now, responses>>
concVars == <<tasks, running>>
vars == <<scoreVars, cxVars, runVars, unitVars, rateVars, concVars>>

\* what the actions of one specification leave alone
notScore == <<cxVars, runVars, unitVars, rateVars, concVars>>
notCx == <<scoreVars, runVars, unitVars, rateVars, concVars>>
notJs == <<scoreVars, cxRest, runVars, unitVars, rateVars, concVars>>
notRun == <<scoreVars, cxRest, unitVars, rateVars, concVars>>
notUnit == <<scoreVars, cxVars, runVars, rateVars, concVars>>
notRate == <<scoreVars, cxVars, runVars, unitVars, concVars>>

\* the absent value of a record-valued result, and of a line number
None == [none |-> TRUE]
NoLine == 0

\* the variables of a specification that is not the one being run
JsIdle == [pc |-> "idle"]

ScoreIdle ==
    /\ sc_issues = <<>>
    /\ sc_files = 0
    /\ sc_scores = None

CxIdle ==
    /\ cx_input = None
    /\ cx_pc = "idle"
    /\ cx_measured = <<>>
    /\ cx_issues = <<>>
    /\ js = JsIdle

RateIdle ==
    /\ settings = [RATE_LIMIT_REQUESTS |-> 100, RATE_LIMIT_WINDOW |-> 60]
    /\ rate_limit_store = <<>>
    /\ now = 0
    /\ responses = <<>>

ConcIdle ==
    /\ tasks = <<>>
    /\ running = 0

UnitIdle ==
    /\ u_input = None
    /\ u_pc = "idle"
    /\ u_output = <<>>

RunIdle ==
    /\ world = "empty"
    /\ hash_seed = 1
    /\ runs = 0
    /\ faults = 0
    /\ args = None
    /\ pc = "off"
    /\ code_files = <<>>
    /\ file_contents = <<>>
    /\ all_issues = <<>>
    /\ files_analyzed = 0
    /\ idx = 0
    /\ failed = <<>>
    /\ unread = <<>>
    /\ outcome = "none"
    /\ report = None
    /\ prev = None

(***************************************************************************)
(* Generic helpers                                                         *)
(***************************************************************************)
Max(a, b) == IF a >= b THEN a ELSE b

RECURSIVE Pow2(_)
Pow2(k) == IF k = 0 THEN 1 ELSE 2 * Pow2(k - 1)

\* sums and concatenations split their range in halves, which keeps the
\* evaluation shallow on long sequences
RECURSIVE SumRange(_, _, _)
SumRange(q, lo, hi) ==
    IF lo > hi THEN 0
    ELSE IF lo = hi THEN q[lo]
    ELSE LET mid == (lo + hi) \div 2
         IN  SumRange(q, lo, mid) + SumRange(q, mid + 1, hi)

SumSeq(q) == SumRange(q, 1, Len(q))

RECURSIVE FlatRange(_, _, _)
FlatRange(qs, lo, hi) ==
    IF lo > hi THEN <<>>
    ELSE IF lo = hi THEN qs[lo]
    ELSE LET mid == (lo + hi) \div 2
         IN  FlatRange(qs, lo, mid) \o FlatRange(qs, mid + 1, hi)

Flatten(qs) == FlatRange(qs, 1, Len(qs))

(***************************************************************************)
(* IEEE-754 binary64 arithmetic, as far as _calculate_scores uses it.      *)
(* A non-negative number is held exactly as four limbs of LimbBits bits,   *)
(* least significant first, in a fixed binary unit; every float operation  *)
(* is the exact operation followed by rounding to MantissaBits significant *)
(* bits, ties to even.                                                     *)
(***************************************************************************)
LimbBits == 24
MantissaBits == 53
LimbBase == Pow2(LimbBits)

NormLimbs(n) ==
    LET t1 == n[1]
        t2 == n[2] + (t1 \div LimbBase)
        t3 == n[3] + (t2 \div LimbBase)
        t4 == n[4] + (t3 \div LimbBase)
    IN  <<t1 % LimbBase, t2 % LimbBase, t3 % LimbBase, t4>>

MulSmall(n, k) == NormLimbs(<<n[1] * k, n[2] * k, n[3] * k, n[4] * k>>)

AddLimbs(a, b) == NormLimbs(<<a[1] + b[1], a[2] + b[2], a[3] + b[3], a[4] + b[4]>>)

\* n divided by a small f: <<quotient, remainder # 0>>
DivSmall(n, f) ==
    LET q4 == n[4] \div f
        r4 == n[4] % f
        c3 == r4 * LimbBase + n[3]
        q3 == c3 \div f
        r3 == c3 % f
        c2 == r3 * LimbBase + n[2]
        q2 == c2 \div f
        r2 == c2 % f
        c1 == r2 * LimbBase + n[1]
        q1 == c1 \div f
        r1 == c1 % f
    IN  <<NormLimbs(<<q1, q2, q3, q4>>), r1 # 0>>

RECURSIVE IntBitLen(_)
IntBitLen(v) == IF v = 0 THEN 0 ELSE 1 + IntBitLen(v \div 2)

BitLen(n) ==
    IF n[4] # 0 THEN 3 * LimbBits + IntBitLen(n[4])
    ELSE IF n[3] # 0 THEN 2 * LimbBits + IntBitLen(n[3])
    ELSE IF n[2] # 0 THEN LimbBits + IntBitLen(n[2])
    ELSE IntBitLen(n[1])

\* round to MantissaBits significant bits, ties to even; sticky says that
\* bits below the held ones were non-zero (an inexact quotient)
Round53(n, sticky) ==
    LET bl == BitLen(n)
        k == bl - MantissaBits
    IN  IF k <= 0 THEN n
        ELSE LET unit == Pow2(k)
                 q == n[1] % unit
                 half == unit \div 2
                 odd == (n[1] \div unit) % 2 = 1
                 down == <<n[1] - q, n[2], n[3], n[4]>>
                 up == \/ q > half
                       \/ q = half /\ (sticky \/ odd)
             IN  IF up THEN NormLimbs(<<down[1] + unit, down[2], down[3], down[4]>>)
                 ELSE down

\* int(x) of a number held in units of 2^-(2*LimbBits + frac)
TruncLimbs(n, frac) == (n[3] \div Pow2(frac)) + n[4] * Pow2(LimbBits - frac)

\* quotients are held in units of 2^-60, products of the score weights in 2^-54
QuotFrac == 12
WeightFrac == 6

\* the doubles 0.4 and 0.3, as integers in units of 2^-54
Double04 == <<10066330, 10066329, 25, 0>>
Double03 == <<3355443, 3355443, 19, 0>>

\* int(penalty / files * 10)
FloatPenaltyTimes10(penalty, files) ==
    LET one == <<0, 0, Pow2(QuotFrac), 0>>
        d == DivSmall(MulSmall(one, penalty), files)
        quot == Round53(d[1], d[2])
        prod == Round53(MulSmall(quot, 10), FALSE)
    IN  TruncLimbs(prod, QuotFrac)

\* int(c * 0.4 + d * 0.3 + e * 0.3)
FloatOverall(c, d, e) ==
    LET a == Round53(MulSmall(Double04, c), FALSE)
        b == Round53(MulSmall(Double03, d), FALSE)
        s == Round53(AddLimbs(a, b), FALSE)
        t == Round53(MulSmall(Double03, e), FALSE)
        u == Round53(AddLimbs(s, t), FALSE)
    IN  TruncLimbs(u, WeightFrac)

(***************************************************************************)
(* Issues.  title and description hold the values interpolated into the    *)
(* f-strings, in order; estimated_hours is in tenths of an hour.           *)
(***************************************************************************)
Issue(file_path, issue_type, category, severity, title, description, line_start, line_end, hours10) ==
    [file_path |-> file_path, issue_type |-> issue_type, category |-> category,
     severity |-> severity, title |-> title, description |-> description,
     line_start |-> line_start, line_end |-> line_end, estimated_hours |-> hours10]

\* round(x, 1) of x given exactly in hundredths (ties to even), in tenths
RoundTenths(hundredths) ==
    LET t == hundredths \div 10
        r == hundredths % 10
    IN  IF r > 5 \/ (r = 5 /\ t % 2 = 1) THEN t + 1 ELSE t

\* round(n * 0.05, 1) in tenths: the double product n * 0.05 (0.05 has the
\* mantissa of 0.4, in units of 2^-57), then the nearest tenth, ties to even
HalfUnitFrac == 9
RoundTwentieths(n) ==
    LET prod == Round53(MulSmall(Double04, n), FALSE)
        q == MulSmall(prod, 10)
        unit == Pow2(HalfUnitFrac)
        t == (q[3] \div unit) + q[4] * Pow2(LimbBits - HalfUnitFrac)
        f3 == q[3] % unit
        half == unit \div 2
    IN  IF f3 > half \/ (f3 = half /\ (q[2] # 0 \/ q[1] # 0)) THEN t + 1
        ELSE IF f3 < half THEN t
        ELSE IF t % 2 = 1 THEN t + 1 ELSE t

(***************************************************************************)
(* Python syntax trees (the result of ast.parse).  kids are the child      *)
(* nodes in ast.iter_child_nodes order; for a BoolOp they are its values,  *)
(* for a ClassDef its body.                                                *)
(***************************************************************************)
Node(type, kids) == [type |-> type, kids |-> kids]
Name(id, ctx) == [type |-> "Name", kids |-> <<>>, id |-> id, ctx |-> ctx]
Def(type, name, lineno, end_lineno, kids) ==
    [type |-> type, kids |-> kids, name |-> name, lineno |-> lineno,
     end_lineno |-> end_lineno]
SyntaxError == [type |-> "SyntaxError"]

\* ast.walk: breadth-first, the node itself first; taken level by level
RECURSIVE Walk(_)
Walk(todo) ==
    IF todo = <<>> THEN <<>>
    ELSE todo \o Walk(Flatten([i \in 1..Len(todo) |-> todo[i].kids]))

IsFunction(n) == n.type \in {"FunctionDef", "AsyncFunctionDef"}

ComplexityOfChild_NoAsyncFor(child) ==
    IF child.type \in {"If", "While", "For"} THEN 1
    ELSE IF child.type = "ExceptHandler" THEN 1
    ELSE IF child.type = "BoolOp" THEN Len(child.kids) - 1
    ELSE 0

ComplexityOfChild(child) ==
    IF child.type \in {"If", "While", "For", "AsyncFor"} THEN 1
    ELSE IF child.type = "ExceptHandler" THEN 1
    ELSE IF child.type = "BoolOp" THEN Len(child.kids) - 1
    ELSE 0

SumComplexity(nodes) == SumSeq([i \in 1..Len(nodes) |-> ComplexityOfChild(nodes[i])])

_calculate_cyclomatic_complexity(node) == 1 + SumComplexity(Walk(<<node>>))

PyComplexityIssue(node, rel_path) ==
    LET complexity == _calculate_cyclomatic_complexity(node)
    IN  IF complexity > 15
        THEN LET severity == IF complexity > 25 THEN "critical"
                             ELSE IF complexity > 20 THEN "high" ELSE "medium"
             IN <<Issue(rel_path, "complexity", "High Cyclomatic Complexity", severity,
                        <<node.name, complexity>>, <<node.name, complexity>>,
                        node.lineno, node.end_lineno,
                        RoundTenths((complexity - 15) * 50))>>
        ELSE <<>>

MethodCount(node) == Len(SelectSeq(node.kids, IsFunction))

PyGodObjectIssue_At20(node, rel_path) ==
    LET method_count == MethodCount(node)
    IN  IF method_count >= 20
        THEN <<Issue(rel_path, "architecture", "God Object", "high",
                     <<node.name, method_count>>, <<node.name, method_count>>,
                     node.lineno, node.end_lineno, method_count * 3)>>
        ELSE <<>>

PyGodObjectIssue(node, rel_path) ==
    LET method_count == MethodCount(node)
    IN  IF method_count > 20
        THEN <<Issue(rel_path, "architecture", "God Object", "high",
                     <<node.name, method_count>>, <<node.name, method_count>>,
                     node.lineno, node.end_lineno, method_count * 3)>>
        ELSE <<>>

PyComplexityIssues(nodes, rel_path) ==
    LET here(node) == IF IsFunction(node) THEN PyComplexityIssue(node, rel_path)
                      ELSE IF node.type = "ClassDef" THEN PyGodObjectIssue(node, rel_path)
                      ELSE <<>>
    IN  Flatten([i \in 1..Len(nodes) |-> here(nodes[i])])

\* content is given by what ast.parse makes of it: a Module node or SyntaxError
_analyze_python_complexity(tree, rel_path) ==
    IF tree = SyntaxError THEN <<>>
    ELSE PyComplexityIssues(Walk(<<tree>>), rel_path)

(***************************************************************************)
(* Text.  File contents, paths and names are strings; a character is a     *)
(* string of length 1.                                                     *)
(***************************************************************************)
NL == "\n"
Char(s, i) == SubSeq(s, i, i)
SpaceChars == {" ", "\t", "\n", "\r"}
WordChars ==
    {"a", "b", "c", "d", "e", "f", "g", "h", "i", "j", "k", "l", "m", "n", "o", "p",
     "q", "r", "s", "t", "u", "v", "w", "x", "y", "z", "A", "B", "C", "D", "E", "F",
     "G", "H", "I", "J", "K", "L", "M", "N", "O", "P", "Q", "R", "S", "T", "U", "V",
     "W", "X", "Y", "Z", "0", "1", "2", "3", "4", "5", "6", "7", "8", "9", "_"}

StartsWith(s, p) == Len(s) >= Len(p) /\ SubSeq(s, 1, Len(p)) = p
EndsWith(s, p) == Len(s) >= Len(p) /\ SubSeq(s, Len(s) - Len(p) + 1, Len(s)) = p
IsAt(s, i, sub) == i + Len(sub) - 1 <= Len(s) /\ SubSeq(s, i, i + Len(sub) - 1) = sub
Contains(s, sub) == \E i \in 1..Len(s) : IsAt(s, i, sub)

\* s.find(sub, from): the first index >= from at which sub occurs, or 0
RECURSIVE FindFrom(_, _, _)
FindFrom(s, sub, from) ==
    IF from + Len(sub) - 1 > Len(s) THEN 0
    ELSE IF IsAt(s, from, sub) THEN from
    ELSE FindFrom(s, sub, from + 1)

\* s[:pos].count('\n') for the 1-based index pos of a character
NewlinesBefore(s, pos) == Cardinality({k \in 1..(pos - 1) : Char(s, k) = NL})

\* the first position at or after i whose character is outside cls
RECURSIVE SkipRun(_, _, _)
SkipRun(content, i, cls) ==
    IF i <= Len(content) /\ Char(content, i) \in cls THEN SkipRun(content, i + 1, cls)
    ELSE i

\* str.strip()
RECURSIVE LastNonSpace(_, _)
LastNonSpace(s, i) ==
    IF i >= 1 /\ Char(s, i) \in SpaceChars THEN LastNonSpace(s, i - 1) ELSE i

Strip(s) ==
    LET l == SkipRun(s, 1, SpaceChars)
        r == LastNonSpace(s, Len(s))
    IN  IF l > r THEN "" ELSE SubSeq(s, l, r)

\* s.split(sep): the pieces between the occurrences of sep, left to right
RECURSIVE SplitFrom(_, _, _)
SplitFrom(s, sep, from) ==
    LET i == FindFrom(s, sep, from)
    IN  IF i = 0 THEN <<SubSeq(s, from, Len(s))>>
        ELSE <<SubSeq(s, from, i - 1)>> \o SplitFrom(s, sep, i + Len(sep))

\* the same for a separator of one character
SplitChar(s, c) ==
    LET at == SelectSeq([i \in 1..Len(s) |-> i], LAMBDA i : Char(s, i) = c)
        cuts == <<0>> \o at \o <<Len(s) + 1>>
    IN  [k \in 1..(Len(at) + 1) |-> SubSeq(s, cuts[k] + 1, cuts[k + 1] - 1)]

Split(s, sep) == IF Len(sep) = 1 THEN SplitChar(s, sep) ELSE SplitFrom(s, sep, 1)

\* sep.join(parts)
RECURSIVE Join(_, _)
Join(parts, sep) ==
    IF parts = <<>> THEN ""
    ELSE IF Len(parts) = 1 THEN parts[1]
    ELSE parts[1] \o sep \o Join(Tail(parts), sep)

\* the concatenation of pieces[lo..hi]
RECURSIVE ConcatRange(_, _, _)
ConcatRange(pieces, lo, hi) ==
    IF lo > hi THEN ""
    ELSE IF lo = hi THEN pieces[lo]
    ELSE LET mid == (lo + hi) \div 2
         IN  ConcatRange(pieces, lo, mid) \o ConcatRange(pieces, mid + 1, hi)

\* re.sub(r'\s+', ' ', s): each run of whitespace becomes one space
CollapseSpace(s) ==
    LET piece(i) == IF Char(s, i) \notin SpaceChars THEN Char(s, i)
                    ELSE IF i > 1 /\ Char(s, i - 1) \in SpaceChars THEN ""
                    ELSE " "
    IN  ConcatRange([i \in 1..Len(s) |-> piece(i)], 1, Len(s))

\* str.lower() on the letters A-Z
UpperLetters == "ABCDEFGHIJKLMNOPQRSTUVWXYZ"
LowerLetters == "abcdefghijklmnopqrstuvwxyz"
LowerChar(c) ==
    LET i == FindFrom(UpperLetters, c, 1)
    IN  IF i = 0 THEN c ELSE Char(LowerLetters, i)

RECURSIVE Lower(_)
Lower(s) == IF s = "" THEN "" ELSE LowerChar(Head(s)) \o Lower(Tail(s))

\* the iteration order of a set of str, which the process's string hash
\* seed decides: one enumeration under one seed, its reverse under another
Reverse(q) == [i \in 1..Len(q) |-> q[Len(q) + 1 - i]]
Enumerations(S) == {q \in [1..Cardinality(S) -> S] : \A x \in S : \E i \in DOMAIN q : q[i] = x}
SetOrder(seed, S) ==
    LET q == CHOOSE e \in Enumerations(S) : TRUE
    IN  IF seed = 1 THEN q ELSE Reverse(q)

Take(q, n) == SubSeq(q, 1, IF Len(q) < n THEN Len(q) ELSE n)


(***************************************************************************)
(* The bracket strategy (.js/.ts/.jsx/.tsx).  Indices are 1-based (the     *)
(* code's are 0-based), 0 standing for "not found".  The two passes        *)
(* (_analyze_js_complexity, _detect_long_js_functions) share the loop      *)
(* structure: next regex match, brace scan, emit; js holds the position.   *)
(***************************************************************************)
\* (?:function|const|let|var) in the complexity pass, (?:function|const|let)
\* in the long-function pass
JsKeywords(mode) ==
    IF mode = "complexity" THEN {"function", "const", "let", "var"}
    ELSE {"function", "const", "let"}

\* .*?{ : the first "{" at or after i before the end of the line, or 0
RECURSIVE BraceOnLine(_, _)
BraceOnLine(content, i) ==
    IF i > Len(content) \/ Char(content, i) = NL THEN 0
    ELSE IF Char(content, i) = "{" THEN i
    ELSE BraceOnLine(content, i + 1)

\* (?:function|const|let|var)\s+(\w+)\s*[=\(].*?{ anchored at s:
\* [name, brace], brace = 0 when there is no match at s
MatchAt(content, s, mode) ==
    LET kws == {k \in JsKeywords(mode) : IsAt(content, s, k)}
        nomatch == [name |-> "", brace |-> 0]
    IN  IF kws = {} THEN nomatch
        ELSE LET p1 == s + Len(CHOOSE k \in kws : TRUE)
                 p2 == SkipRun(content, p1, SpaceChars)
                 p3 == SkipRun(content, p2, WordChars)
                 p4 == SkipRun(content, p3, SpaceChars)
             IN  IF p2 = p1 \/ p3 = p2 THEN nomatch
                 ELSE IF p4 > Len(content) \/ Char(content, p4) \notin {"=", "("} THEN nomatch
                 ELSE [name |-> SubSeq(content, p2, p3 - 1),
                       brace |-> BraceOnLine(content, p4 + 1)]

\* re.finditer's next match at or after from: [start, name, brace], start = 0 if none
RECURSIVE NextMatch(_, _, _)
NextMatch(content, from, mode) ==
    IF from > Len(content) THEN [start |-> 0, name |-> "", brace |-> 0]
    ELSE LET m == MatchAt(content, from, mode)
         IN  IF m.brace # 0 THEN [start |-> from, name |-> m.name, brace |-> m.brace]
             ELSE NextMatch(content, from + 1, mode)

\* len(re.findall(r'\bword\b', body))
CountWord(body, word) ==
    Cardinality({i \in 1..Len(body) :
        /\ IsAt(body, i, word)
        /\ i = 1 \/ Char(body, i - 1) \notin WordChars
        /\ i + Len(word) > Len(body) \/ Char(body, i + Len(word)) \notin WordChars})

\* len(re.findall(r'&&|\|\|', body)): leftmost matches, not overlapping
RECURSIVE CountOperators(_, _)
CountOperators(body, i) ==
    IF i + 1 > Len(body) THEN 0
    ELSE IF SubSeq(body, i, i + 1) \in {"&&", "||"} THEN 1 + CountOperators(body, i + 2)
    ELSE CountOperators(body, i + 1)

JsStart(content, rel_path, mode) ==
    [pc |-> "find", mode |-> mode, content |-> content, rel_path |-> rel_path,
     pos |-> 1, start_pos |-> 0, func_name |-> "", func_start |-> 0, func_end |-> 0,
     i |-> 0, brace_count |-> 0, measured |-> <<>>, issues |-> <<>>]

\* for match in functions: ... func_start = content.find('{', start_pos)
JsFindStep(j) ==
    LET m == NextMatch(j.content, j.pos, j.mode)
        func_start == FindFrom(j.content, "{", m.start)
    IN  IF m.start = 0 THEN [j EXCEPT !.pc = "done"]
        ELSE IF func_start = 0 THEN [j EXCEPT !.pos = m.brace + 1]
        ELSE [j EXCEPT !.pc = "scan", !.pos = m.brace + 1, !.start_pos = m.start,
                       !.func_name = m.name, !.func_start = func_start,
                       !.func_end = func_start, !.i = func_start, !.brace_count = 0]

JsScanStep_Restart(j) ==
    IF j.i > Len(j.content) THEN [j EXCEPT !.pc = "emit"]
    ELSE IF Char(j.content, j.i) = "{"
         THEN [j EXCEPT !.brace_count = @ + 1, !.i = @ + 1]
    ELSE IF Char(j.content, j.i) = "}"
         THEN [j EXCEPT !.brace_count = 0, !.i = j.func_start]
    ELSE [j EXCEPT !.i = @ + 1]

\* one iteration of: for i in range(func_start, len(content))
JsScanStep(j) ==
    IF j.i > Len(j.content) THEN [j EXCEPT !.pc = "emit"]
    ELSE IF Char(j.content, j.i) = "{"
         THEN [j EXCEPT !.brace_count = @ + 1, !.i = @ + 1]
    ELSE IF Char(j.content, j.i) = "}"
         THEN IF j.brace_count - 1 = 0
              THEN [j EXCEPT !.brace_count = 0, !.func_end = j.i, !.pc = "emit"]
              ELSE [j EXCEPT !.brace_count = @ - 1, !.i = @ + 1]
    ELSE [j EXCEPT !.i = @ + 1]

JsComplexity(func_body) ==
    1 + CountWord(func_body, "if") + CountWord(func_body, "for")
      + CountWord(func_body, "while") + CountWord(func_body, "case")
      + CountWord(func_body, "catch") + CountOperators(func_body, 1)

JsComplexityIssue_HighAt20(j) ==
    LET func_body == SubSeq(j.content, j.func_start, j.func_end - 1)
        complexity == JsComplexity(func_body)
    IN  IF complexity > 15
        THEN LET severity == IF complexity > 25 THEN "critical"
                             ELSE IF complexity >= 20 THEN "high" ELSE "medium"
                 line_num == NewlinesBefore(j.content, j.start_pos) + 1
             IN <<Issue(j.rel_path, "complexity", "High Cyclomatic Complexity", severity,
                        <<j.func_name, complexity>>, <<complexity>>,
                        line_num, NoLine, RoundTenths((complexity - 15) * 50))>>
        ELSE <<>>

JsComplexityIssue(j) ==
    LET func_body == SubSeq(j.content, j.func_start, j.func_end - 1)
        complexity == JsComplexity(func_body)
    IN  IF complexity > 15
        THEN LET severity == IF complexity > 25 THEN "critical"
                             ELSE IF complexity > 20 THEN "high" ELSE "medium"
                 line_num == NewlinesBefore(j.content, j.start_pos) + 1
             IN <<Issue(j.rel_path, "complexity", "High Cyclomatic Complexity", severity,
                        <<j.func_name, complexity>>, <<complexity>>,
                        line_num, NoLine, RoundTenths((complexity - 15) * 50))>>
        ELSE <<>>

\* a length counted from the line of the opening brace
JsLongIssue_FromBrace(j) ==
    LET start_line == NewlinesBefore(j.content, j.func_start) + 1
        end_line == NewlinesBefore(j.content, j.func_end) + 1
        func_length == end_line - start_line
    IN  IF func_length > 50
        THEN LET severity == IF func_length > 100 THEN "high" ELSE "medium"
             IN <<Issue(j.rel_path, "smell", "Long Method", severity,
                        <<j.func_name, func_length>>, <<func_length>>,
                        start_line, end_line, RoundTwentieths(func_length - 50))>>
        ELSE <<>>

JsLongIssue(j) ==
    LET start_line == NewlinesBefore(j.content, j.start_pos) + 1
        end_line == NewlinesBefore(j.content, j.func_end) + 1
        func_length == end_line - start_line
    IN  IF func_length > 50
        THEN LET severity == IF func_length > 100 THEN "high" ELSE "medium"
             IN <<Issue(j.rel_path, "smell", "Long Method", severity,
                        <<j.func_name, func_length>>, <<func_length>>,
                        start_line, end_line, RoundTwentieths(func_length - 50))>>
        ELSE <<>>

\* the rest of the loop body, after the brace scan
JsEmitStep(j) ==
    IF j.mode = "complexity"
    THEN [j EXCEPT !.pc = "find",
                   !.measured = Append(@, JsComplexity(SubSeq(j.content, j.func_start, j.func_end - 1))),
                   !.issues = @ \o JsComplexityIssue(j)]
    ELSE [j EXCEPT !.pc = "find",
                   !.measured = Append(@, NewlinesBefore(j.content, j.func_end)
                                          - NewlinesBefore(j.content, j.start_pos)),
                   !.issues = @ \o JsLongIssue(j)]

(***************************************************************************)
(* _detect_code_smells for Python, _detect_duplication,                    *)
(* _analyze_dependencies                                                   *)
(***************************************************************************)
PyLongIssue(node, rel_path) ==
    LET func_length == node.end_lineno - node.lineno
    IN  IF func_length > 50
        THEN LET severity == IF func_length > 100 THEN "high" ELSE "medium"
             IN <<Issue(rel_path, "smell", "Long Method", severity,
                        <<node.name, func_length>>, <<func_length>>,
                        node.lineno, node.end_lineno, RoundTwentieths(func_length - 50))>>
        ELSE <<>>

\* a detector that reports a file it cannot parse
_detect_long_python_functions_FlagsUnparsed(tree, rel_path) ==
    IF tree = SyntaxError
    THEN <<Issue(rel_path, "smell", "Long Method", "medium", "", "", 1, 1, 0)>>
    ELSE <<>>

_detect_long_python_functions(tree, rel_path) ==
    IF tree = SyntaxError THEN <<>>
    ELSE LET funcs == SelectSeq(Walk(<<tree>>), IsFunction)
         IN  Flatten([i \in 1..Len(funcs) |-> PyLongIssue(funcs[i], rel_path)])

NamesWithCtx(node, ctx) ==
    LET all == Walk(<<node>>)
    IN  {all[i].id : i \in {k \in 1..Len(all) : all[k].type = "Name" /\ all[k].ctx = ctx}}

PyUnusedIssue_Trivial(node, rel_path, seed) ==
    LET assigned_vars == NamesWithCtx(node, "Store")
        used_vars == NamesWithCtx(node, "Load")
        unused == {v \in assigned_vars \ used_vars : ~StartsWith(v, "_")}
        listed == SetOrder(seed, unused)
    IN  IF unused # {}
        THEN <<Issue(rel_path, "smell", "Unused Variable", "trivial",
                     <<node.name, Take(listed, 3)>>, <<Cardinality(unused), listed>>,
                     node.lineno, NoLine, 1)>>
        ELSE <<>>

PyUnusedIssue(node, rel_path, seed) ==
    LET assigned_vars == NamesWithCtx(node, "Store")
        used_vars == NamesWithCtx(node, "Load")
        unused == {v \in assigned_vars \ used_vars : ~StartsWith(v, "_")}
        listed == SetOrder(seed, unused)
    IN  IF unused # {}
        THEN <<Issue(rel_path, "smell", "Unused Variable", "low",
                     <<node.name, Take(listed, 3)>>, <<Cardinality(unused), listed>>,
                     node.lineno, NoLine, 1)>>
        ELSE <<>>

_detect_unused_python_variables(tree, rel_path, seed) ==
    IF tree = SyntaxError THEN <<>>
    ELSE LET funcs == SelectSeq(Walk(<<tree>>), IsFunction)
         IN  Flatten([i \in 1..Len(funcs) |-> PyUnusedIssue(funcs[i], rel_path, seed)])

\* ---- _detect_duplication over file_contents, a sequence of <<rel_path, content>>
\* in insertion order.  A block's md5 digest is held as the normalized text
\* itself (digests of distinct texts are taken to differ).
min_block_size == 5

BlocksOf(rel_path, content) ==
    LET lines == Split(content, NL)
        n == Len(lines) - min_block_size + 1
        block(i) == Join(SubSeq(lines, i, i + min_block_size - 1), NL)
        normalized(i) == CollapseSpace(Strip(block(i)))
    IN  SelectSeq([i \in 1..(IF n > 0 THEN n ELSE 0) |->
                      [hash |-> normalized(i), at |-> <<rel_path, i>>]],
                  LAMBDA b : Len(b.hash) > 50)

\* code_block_hashes[block_hash].append(...), keys in first-insertion order
RECURSIVE RecordBlocks(_, _)
RecordBlocks(table, blocks) ==
    IF blocks = <<>> THEN table
    ELSE LET b == Head(blocks)
             hit == {k \in 1..Len(table) : table[k].hash = b.hash}
             next == IF hit = {}
                     THEN Append(table, [hash |-> b.hash, occurrences |-> <<b.at>>])
                     ELSE LET k == CHOOSE k \in hit : TRUE
                          IN  [table EXCEPT ![k].occurrences = Append(@, b.at)]
         IN  RecordBlocks(next, Tail(blocks))

DuplicationIssue_MediumAt3(entry, seed) ==
    LET occurrences == entry.occurrences
        first3 == Take(occurrences, 3)
        files_affected == SetOrder(seed, {first3[i][1] : i \in 1..Len(first3)})
    IN  IF Len(occurrences) > 1
        THEN <<Issue(occurrences[1][1], "duplication", "Code Duplication",
                     IF Len(occurrences) >= 3 THEN "medium" ELSE "low",
                     <<Len(occurrences)>>, <<Len(occurrences), files_affected>>,
                     occurrences[1][2], occurrences[1][2] + min_block_size,
                     5 * Len(occurrences))>>
        ELSE <<>>

DuplicationIssue(entry, seed) ==
    LET occurrences == entry.occurrences
        first3 == Take(occurrences, 3)
        files_affected == SetOrder(seed, {first3[i][1] : i \in 1..Len(first3)})
    IN  IF Len(occurrences) > 1
        THEN <<Issue(occurrences[1][1], "duplication", "Code Duplication",
                     IF Len(occurrences) > 3 THEN "medium" ELSE "low",
                     <<Len(occurrences)>>, <<Len(occurrences), files_affected>>,
                     occurrences[1][2], occurrences[1][2] + min_block_size,
                     5 * Len(occurrences))>>
        ELSE <<>>

_detect_duplication(contents, seed) ==
    LET blocks == Flatten([k \in 1..Len(contents) |-> BlocksOf(contents[k][1], contents[k][2])])
        code_block_hashes == RecordBlocks(<<>>, blocks)
    IN  Flatten([k \in 1..Len(code_block_hashes) |->
                    DuplicationIssue(code_block_hashes[k], seed)])

\* ---- _analyze_dependencies.  A manifest is Absent, Unreadable (open or read
\* raises), or [text |-> ...] for requirements.txt and [json |-> ...] for
\* package.json, json being what json.load returns or Invalid when it raises.
Absent == [state |-> "absent"]
Unreadable == [state |-> "unreadable"]
Invalid == [kind |-> "invalid"]
JsonString(text) == [kind |-> "string", text |-> text]
JsonNumber == [kind |-> "number"]
JsonArray == [kind |-> "array"]
JsonObject(items) == [kind |-> "object", items |-> items]

\* f.readlines(): the lines, a final line break ending the last line
ReadLines(text) ==
    LET pieces == Split(text, NL)
    IN  IF pieces[Len(pieces)] = "" THEN SubSeq(pieces, 1, Len(pieces) - 1) ELSE pieces

RequirementIssue_PythonToo(raw, line_num) ==
    LET line == Strip(raw)
    IN  IF line # "" /\ ~StartsWith(line, "#") /\ Contains(line, "==")
        THEN LET package_name == Strip(Split(line, "==")[1])
                 version == Strip(Split(line, "==")[2])
             IN  IF \E old \in {"0.", "1.", "2."} : Contains(version, old)
                 THEN <<Issue("requirements.txt", "dependency",
                              "Potentially Outdated Dependency", "low",
                              <<package_name, version>>, <<package_name, version>>,
                              line_num, NoLine, 2)>>
                 ELSE <<>>
        ELSE <<>>

RequirementIssue(raw, line_num) ==
    LET line == Strip(raw)
    IN  IF line # "" /\ ~StartsWith(line, "#") /\ Contains(line, "==")
        THEN LET package_name == Strip(Split(line, "==")[1])
                 version == Strip(Split(line, "==")[2])
             IN  IF (\E old \in {"0.", "1.", "2."} : Contains(version, old))
                    /\ package_name # "python"
                 THEN <<Issue("requirements.txt", "dependency",
                              "Potentially Outdated Dependency", "low",
                              <<package_name, version>>, <<package_name, version>>,
                              line_num, NoLine, 2)>>
                 ELSE <<>>
        ELSE <<>>

RequirementsIssues(manifest) ==
    IF manifest \in {Absent, Unreadable} THEN <<>>
    ELSE LET lines == ReadLines(manifest.text)
         IN  Flatten([n \in 1..Len(lines) |-> RequirementIssue(lines[n], n)])

\* dict.get(key, {}) on the items of a JSON object: the last value given wins
DictGet(items, key) ==
    LET hit == {k \in 1..Len(items) : items[k][1] = key}
    IN  IF hit = {} THEN JsonObject(<<>>)
        ELSE items[CHOOSE k \in hit : \A m \in hit : m <= k][2]

\* the items of a dict built from a JSON object's members: one per key, at
\* the key's first position, with its last value
DictItems(items) ==
    LET firsts == SelectSeq([k \in 1..Len(items) |-> k],
                            LAMBDA k : \A m \in 1..(k - 1) : items[m][1] # items[k][1])
    IN  [n \in 1..Len(firsts) |-> <<items[firsts[n]][1], DictGet(items, items[firsts[n]][1])>>]

MergeDicts_FirstWins(a, b) == DictItems(DictItems(b) \o DictItems(a))

\* {**a, **b}
MergeDicts(a, b) == DictItems(DictItems(a) \o DictItems(b))

\* the loop over deps.items(): the issues appended until a version that is
\* no string makes version.startswith raise
RECURSIVE PackageIssues(_)
PackageIssues(deps) ==
    IF deps = <<>> THEN <<>>
    ELSE LET pkg == Head(deps)[1]
             version == Head(deps)[2]
         IN  IF version.kind # "string" THEN <<>>
             ELSE (IF StartsWith(version.text, "^") \/ StartsWith(version.text, "~")
                   THEN <<Issue("package.json", "dependency", "Flexible Dependency Version",
                                "low", <<pkg, version.text>>, <<>>, NoLine, NoLine, 1)>>
                   ELSE <<>>) \o PackageIssues(Tail(deps))

PackageJsonIssues(manifest) ==
    IF manifest \in {Absent, Unreadable} THEN <<>>
    ELSE LET data == manifest.json
         IN  IF data.kind # "object" THEN <<>>
             ELSE LET dependencies == DictGet(data.items, "dependencies")
                      devDependencies == DictGet(data.items, "devDependencies")
                  IN  IF dependencies.kind # "object" \/ devDependencies.kind # "object"
                      THEN <<>>
                      ELSE PackageIssues(MergeDicts(dependencies.items, devDependencies.items))

\* whether the try block of lines 451-477 (requirements.txt) or of lines
\* 482-503 (package.json) ends in its except clause
RequirementsRaises(manifest) == manifest = Unreadable

PackageJsonRaises(manifest) ==
    IF manifest = Absent THEN FALSE
    ELSE IF manifest = Unreadable THEN TRUE
    ELSE LET data == manifest.json
         IN  IF data.kind # "object" THEN TRUE
             ELSE LET dependencies == DictGet(data.items, "dependencies")
                      devDependencies == DictGet(data.items, "devDependencies")
                  IN  IF dependencies.kind # "object" \/ devDependencies.kind # "object"
                      THEN TRUE
                      ELSE LET deps == MergeDicts(dependencies.items, devDependencies.items)
                           IN  \E k \in 1..Len(deps) : deps[k][2].kind # "string"

_analyze_dependencies(requirements, package_json) ==
    RequirementsIssues(requirements) \o PackageJsonIssues(package_json)

(***************************************************************************)
(* _calculate_scores                                                       *)
(***************************************************************************)
SeverityPenalty(sev) ==
    IF sev = "critical" THEN 15
    ELSE IF sev = "high" THEN 10
    ELSE IF sev = "medium" THEN 5
    ELSE 2

Penalty(issues) == SumSeq([i \in 1..Len(issues) |-> SeverityPenalty(issues[i].severity)])

\* a score of the average penalty per issue
calc_category_score_PerIssue(category_issues, files) ==
    IF category_issues = <<>> THEN 100
    ELSE Max(0, 100 - FloatPenaltyTimes10(Penalty(category_issues),
                                          Max(files, 1) * Len(category_issues)))

calc_category_score(category_issues, files) ==
    IF category_issues = <<>> THEN 100
    ELSE Max(0, 100 - FloatPenaltyTimes10(Penalty(category_issues), Max(files, 1)))

OfType(issues, t) == SelectSeq(issues, LAMBDA i : i.issue_type = t)

\* lines 512-551, the scores of a run that analyzed files
WeightedScores(issues, files) ==
    LET all_complexity == OfType(issues, "complexity") \o OfType(issues, "smell")
                              \o OfType(issues, "architecture")
        complexity_score == calc_category_score(all_complexity, files)
        duplication_score == calc_category_score(OfType(issues, "duplication"), files)
        dependency_score == calc_category_score(OfType(issues, "dependency"), files)
    IN  [overall |-> FloatOverall(complexity_score, duplication_score, dependency_score),
         complexity |-> complexity_score,
         duplication |-> duplication_score,
         dependency |-> dependency_score]

_calculate_scores_NoEmptyCase(issues, files) == WeightedScores(issues, files)

_calculate_scores(issues, files) ==
    IF files = 0
    THEN [overall |-> 100, complexity |-> 100, duplication |-> 100, dependency |-> 100]
    ELSE WeightedScores(issues, files)

(***************************************************************************)
(* CxSpec: the two complexity strategies applied to one file each.         *)
(***************************************************************************)
MaxOperands == 26
MaxDecisions == 26

\* ---- Python inputs: def f(): <one or two statements>
PassStmt == Node("Pass", <<>>)
LoadA == Name("a", "Load")
BoolOpN(n) == Node("BoolOp", [i \in 1..n |-> LoadA])
NestedBoolOp == Node("BoolOp", <<LoadA, BoolOpN(2)>>)
Handler == Node("ExceptHandler", <<PassStmt>>)
InnerDef == Def("FunctionDef", "g", 2, 3, <<Node("If", <<LoadA, PassStmt>>)>>)

PyTests == {LoadA, NestedBoolOp} \cup {BoolOpN(n) : n \in 2..MaxOperands}

PyStatements ==
    {PassStmt, InnerDef,
     Node("IfExp", <<LoadA, LoadA, LoadA>>),
     Node("With", <<PassStmt>>),
     Node("For", <<Name("i", "Store"), LoadA, PassStmt>>),
     Node("AsyncFor", <<Name("i", "Store"), LoadA, PassStmt>>),
     Node("Try", <<PassStmt, Handler>>),
     Node("Try", <<PassStmt, Handler, Handler>>),
     Node("While", <<NestedBoolOp, Node("If", <<BoolOpN(3), PassStmt>>)>>)}
    \cup {Node("If", <<e, PassStmt>>) : e \in PyTests}
    \cup {Node("While", <<e, PassStmt>>) : e \in {LoadA, BoolOpN(2)}}

PyFunctions ==
    {Def(t, "f", 1, 4, <<a>>) : t \in {"FunctionDef", "AsyncFunctionDef"}, a \in PyStatements}
    \cup {Def("FunctionDef", "f", 1, 4, <<a, b>>) :
             a \in PyStatements, b \in {Node("If", <<e, PassStmt>>) : e \in {LoadA, BoolOpN(3), BoolOpN(9)}}}

PyModule(func) == Node("Module", <<func>>)

\* ---- JS/TS inputs: one declaration with n decision points in its body
RepeatStr(t, n) == ConcatRange([i \in 1..n |-> t], 1, n)

JsHeaders ==
    {"function f(){", "const f = (x) => {", "var f=function(){",
     "let\nf = x => {", "function f()\n{", "outlet f = {"}

JsBodies ==
    {RepeatStr(t, n) : t \in {"if ", "&&"}, n \in 0..MaxDecisions}
    \cup {t \o "\n" \o u : t, u \in {"if", "for(", " while", "case ", "catch", "||", "iffy", "&"}}
    \cup {"{if}" \o RepeatStr("for ", n) : n \in {0, 14, 15}}
    \cup {"function g(){" \o RepeatStr("||", n) \o "}if" : n \in {0, 15}}

JsClosers == {"}", "", "}\nif }"}

JsPrograms == {h \o b \o c : h \in JsHeaders, b \in JsBodies, c \in JsClosers}

CxInit ==
    /\ cx_input \in {[lang |-> "py", ast |-> PyModule(f)] : f \in PyFunctions}
                    \cup {[lang |-> "py", ast |-> SyntaxError]}
                    \cup {[lang |-> "js", content |-> t] : t \in JsPrograms}
    /\ cx_pc = "ready"
    /\ cx_measured = <<>>
    /\ cx_issues = <<>>
    /\ js = JsIdle
    /\ ScoreIdle
    /\ RunIdle
    /\ UnitIdle
    /\ RateIdle
    /\ ConcIdle

PyFunctionNodes(tree) ==
    IF tree = SyntaxError THEN <<>> ELSE SelectSeq(Walk(<<tree>>), IsFunction)

\* _calculate_cyclomatic_complexity on each function node of the file
CxPyMeasure ==
    /\ cx_input.lang = "py"
    /\ cx_pc = "ready"
    /\ cx_pc' = "measured"
    /\ cx_measured' = [i \in 1..Len(PyFunctionNodes(cx_input.ast)) |->
                          _calculate_cyclomatic_complexity(PyFunctionNodes(cx_input.ast)[i])]
    /\ UNCHANGED <<cx_input, cx_issues, js, notCx>>

CxPyAnalyze ==
    /\ cx_input.lang = "py"
    /\ cx_pc = "measured"
    /\ cx_pc' = "returned"
    /\ cx_issues' = _analyze_python_complexity(cx_input.ast, "f.py")
    /\ UNCHANGED <<cx_input, cx_measured, js, notCx>>

CxJsCall ==
    /\ cx_input.lang = "js"
    /\ cx_pc = "ready"
    /\ cx_pc' = "called"
    /\ js' = JsStart(cx_input.content, "f.js", "complexity")
    /\ UNCHANGED <<cx_input, cx_measured, cx_issues, notCx>>

JsFind ==
    /\ js.pc = "find"
    /\ js' = JsFindStep(js)
    /\ UNCHANGED notJs

JsScan ==
    /\ js.pc = "scan"
    /\ js' = JsScanStep(js)
    /\ UNCHANGED notJs

JsEmit ==
    /\ js.pc = "emit"
    /\ js' = JsEmitStep(js)
    /\ UNCHANGED notJs

CxJsReturn ==
    /\ cx_pc = "called"
    /\ js.pc = "done"
    /\ cx_pc' = "returned"
    /\ cx_issues' = js.issues
    /\ cx_measured' = js.measured
    /\ js' = JsIdle
    /\ UNCHANGED <<cx_input, notCx>>

CxNext ==
    \/ CxPyMeasure
    \/ CxPyAnalyze
    \/ CxJsCall
    \/ JsFind
    \/ JsScan
    \/ JsEmit
    \/ CxJsReturn

CxSpec == CxInit /\ [][CxNext]_vars

(***************************************************************************)
(* ScoreSpec: issue lists are enumerated up to order (the function reads   *)
(* the list only through per-type filters and sums); the kinds are the     *)
(* (issue_type, severity) pairs the analyzers emit.                        *)
(***************************************************************************)
MaxScoreIssues == 6
MaxScoreFiles == 5

IssueKinds ==
    << [issue_type |-> "complexity", severity |-> "critical"],
       [issue_type |-> "complexity", severity |-> "high"],
       [issue_type |-> "complexity", severity |-> "medium"],
       [issue_type |-> "smell", severity |-> "high"],
       [issue_type |-> "smell", severity |-> "medium"],
       [issue_type |-> "smell", severity |-> "low"],
       [issue_type |-> "architecture", severity |-> "high"],
       [issue_type |-> "duplication", severity |-> "medium"],
       [issue_type |-> "duplication", severity |-> "low"],
       [issue_type |-> "dependency", severity |-> "low"] >>

KindIndex(k) == CHOOSE i \in 1..Len(IssueKinds) : IssueKinds[i] = k

ScoreInit ==
    /\ sc_issues = <<>>
    /\ sc_files \in 0..MaxScoreFiles
    /\ sc_scores = None
    /\ CxIdle
    /\ RunIdle
    /\ UnitIdle
    /\ RateIdle
    /\ ConcIdle

ScoreAddIssue ==
    /\ sc_scores = None
    /\ Len(sc_issues) < MaxScoreIssues
    /\ \E i \in 1..Len(IssueKinds) :
          /\ IF sc_issues = <<>> THEN TRUE
             ELSE KindIndex(sc_issues[Len(sc_issues)]) <= i
          /\ sc_issues' = Append(sc_issues, IssueKinds[i])
    /\ UNCHANGED <<sc_files, sc_scores, notScore>>

ScoreCall ==
    /\ sc_scores = None
    /\ sc_scores' = _calculate_scores(sc_issues, sc_files)
    /\ UNCHANGED <<sc_issues, sc_files, notScore>>

ScoreNext == ScoreAddIssue \/ ScoreCall

ScoreSpec == ScoreInit /\ [][ScoreNext]_vars

(***************************************************************************)
(* Paths (os.path on POSIX)                                                *)
(***************************************************************************)
PathJoin(a, b) ==
    IF StartsWith(b, "/") THEN b
    ELSE IF a = "" \/ EndsWith(a, "/") THEN a \o b
    ELSE a \o "/" \o b

RECURSIVE LastIndexOf(_, _, _)
LastIndexOf(s, c, i) ==
    IF i < 1 THEN 0 ELSE IF Char(s, i) = c THEN i ELSE LastIndexOf(s, c, i - 1)

\* os.path.splitext(name)[1] of a name without separators
SplitExt(name) ==
    LET d == LastIndexOf(name, ".", Len(name))
    IN  IF d = 0 \/ (\A k \in 1..(d - 1) : Char(name, k) = ".") THEN ""
        ELSE SubSeq(name, d, Len(name))

CountSep(s) == Cardinality({k \in 1..Len(s) : Char(s, k) = "/"})

\* os.path.normpath of an absolute path, as its components
RECURSIVE NormParts(_, _)
NormParts(parts, acc) ==
    IF parts = <<>> THEN acc
    ELSE LET part == Head(parts)
         IN  IF part \in {"", "."} THEN NormParts(Tail(parts), acc)
             ELSE IF part = ".."
                  THEN NormParts(Tail(parts),
                                 IF acc = <<>> THEN acc ELSE SubSeq(acc, 1, Len(acc) - 1))
             ELSE NormParts(Tail(parts), Append(acc, part))

PathParts(path) == NormParts(Split(path, "/"), <<>>)

RECURSIVE CommonPrefixLen(_, _)
CommonPrefixLen(a, b) ==
    IF a = <<>> \/ b = <<>> THEN 0
    ELSE IF Head(a) # Head(b) THEN 0
    ELSE 1 + CommonPrefixLen(Tail(a), Tail(b))

\* os.path.relpath(path, start) for absolute paths
RelPath(path, start) ==
    LET a == PathParts(path)
        b == PathParts(start)
        i == CommonPrefixLen(a, b)
        rel == [k \in 1..(Len(b) - i) |-> ".."] \o SubSeq(a, i + 1, Len(a))
    IN  IF rel = <<>> THEN "." ELSE Join(rel, "/")

(***************************************************************************)
(* The file trees the runs are made on.  A tree lists, per directory, the  *)
(* sub-directories and files in the order os.walk yields them; a file is   *)
(* [readable, content].                                                    *)
(***************************************************************************)
project_path == "/proj"

\* a function of complexity 17 that assigns x and y and never reads them
AppPySource ==
    "def f(a):\n    x = 1\n    y = 2\n    if "
        \o Join([i \in 1..16 |-> "a"], " and ") \o ":\n        return a"
AppPyAst ==
    Node("Module", <<Def("FunctionDef", "f", 1, 5,
        << Node("Assign", <<Name("x", "Store"), Node("Constant", <<>>)>>),
           Node("Assign", <<Name("y", "Store"), Node("Constant", <<>>)>>),
           Node("If", <<BoolOpN(16), Node("Return", <<LoadA>>)>>) >>)>>)

\* a function of 52 lines
LongPySource == "def h():\n" \o RepeatStr("\n", 50) \o "    pass\n"
LongPyAst == Node("Module", <<Def("FunctionDef", "h", 1, 52, <<PassStmt>>)>>)

BadPySource == "def (:\n"
BrokenPySource ==
    "def f(:\n  x = alpha + 1\n  y = alpha + 2\n  z = alpha + 3\n  return x + y + z"
UiJsSource == "let g=()=>{if(a){}}"

\* ast.parse on the sources of the catalogue
Parse(content) ==
    IF content = "" THEN Node("Module", <<>>)
    ELSE IF content = AppPySource THEN AppPyAst
    ELSE IF content = LongPySource THEN LongPyAst
    ELSE SyntaxError

Worlds == {"missing", "empty", "manifests", "app", "misc", "broken"}

Dir(path, dirs, files) == [path |-> path, dirs |-> dirs, files |-> files]

Tree(w) ==
    IF w = "empty" THEN <<Dir("/proj", <<>>, <<>>)>>
    ELSE IF w = "manifests"
         THEN <<Dir("/proj", <<>>, <<"README.md", "package.json", "requirements.txt">>)>>
    ELSE IF w = "app"
         THEN <<Dir("/proj", <<"node_modules", "tests">>,
                    <<"app.py", "package.json", "requirements.txt", "ui.js">>),
                Dir("/proj/node_modules", <<>>, <<"dep.js">>),
                Dir("/proj/tests", <<>>, <<"test_app.py">>)>>
    ELSE IF w = "misc"
         THEN <<Dir("/proj", <<"src">>,
                    <<"bad.py", "locked.py", "main.go", "package.json", "requirements.txt">>),
                Dir("/proj/src", <<>>, <<"Contest.py">>)>>
    ELSE IF w = "broken"
         THEN <<Dir("/proj", <<>>, <<"broken1.py", "broken2.py">>),
                Dir("/srv", <<>>, <<"secret.py">>)>>
    ELSE IF w = "deep"
         THEN <<Dir("/proj", <<"Build", "build", "docs", "lib", "spec", "src">>,
                    <<".py", "Makefile", "README.md", "a.PY", "inspect.py", "main.py">>),
                Dir("/proj/Build", <<>>, <<"out.js">>),
                Dir("/proj/build", <<>>, <<"gen.js">>),
                Dir("/proj/docs", <<>>, <<"guide.md">>),
                Dir("/proj/lib", <<"Contest", "venv", "x">>,
                    <<"mod.rb", "util.test.ts", "util.ts">>),
                Dir("/proj/lib/Contest", <<>>, <<"c.py">>),
                Dir("/proj/lib/venv", <<>>, <<"v.py">>),
                Dir("/proj/lib/x", <<"y">>, <<"x.go">>),
                Dir("/proj/lib/x/y", <<"z">>, <<"y.c">>),
                Dir("/proj/lib/x/y/z", <<>>, <<"z.cs">>),
                Dir("/proj/spec", <<>>, <<"s.py">>),
                Dir("/proj/src", <<"node_modules">>, <<"app.jsx", "latest.py">>),
                Dir("/proj/src/node_modules", <<"pkg">>, <<"n.js">>),
                Dir("/proj/src/node_modules/pkg", <<>>, <<"p.js">>)>>
    ELSE <<>>

File(readable, content) == [readable |-> readable, content |-> content]

FileAt(path) ==
    IF path \in {"/proj/app.py", "/proj/tests/test_app.py", "/srv/secret.py"}
    THEN File(TRUE, AppPySource)
    ELSE IF path \in {"/proj/ui.js", "/proj/node_modules/dep.js"} THEN File(TRUE, UiJsSource)
    ELSE IF path = "/proj/bad.py" THEN File(TRUE, BadPySource)
    ELSE IF path \in {"/proj/broken1.py", "/proj/broken2.py"} THEN File(TRUE, BrokenPySource)
    ELSE IF path = "/proj/src/Contest.py" THEN File(TRUE, LongPySource)
    ELSE IF path = "/proj/main.go" THEN File(TRUE, "package main\n")
    ELSE File(FALSE, "")

DirsOf(w) == {Tree(w)[k].path : k \in 1..Len(Tree(w))}
FilesOf(w) ==
    UNION {{PathJoin(Tree(w)[k].path, Tree(w)[k].files[m]) : m \in 1..Len(Tree(w)[k].files)}
           : k \in 1..Len(Tree(w))}

\* os.path.exists
Exists(w, path) ==
    \E known \in DirsOf(w) \cup FilesOf(w) : PathParts(known) = PathParts(path)

\* open(path).read(): the content, or Unreadable when open or read raises
Read(w, path) ==
    IF \E known \in FilesOf(w) : PathParts(known) = PathParts(path) /\ FileAt(known).readable
    THEN FileAt(CHOOSE known \in FilesOf(w) : PathParts(known) = PathParts(path))
    ELSE File(FALSE, "")

Requirements(w) ==
    IF ~Exists(w, PathJoin(project_path, "requirements.txt")) THEN Absent
    ELSE IF w = "manifests" THEN [text |-> "flask==1.1.2\n# pin\npython==2.7\n"]
    ELSE IF w = "misc" THEN [text |-> "django==4.2.1"]
    ELSE Unreadable

PackageJson(w) ==
    IF ~Exists(w, PathJoin(project_path, "package.json")) THEN Absent
    ELSE IF w = "manifests"
         THEN [json |-> JsonObject(<< <<"dependencies",
                   JsonObject(<< <<"a", JsonString("^1.0.0")>>, <<"b", JsonNumber>> >>)>> >>)]
    ELSE IF w = "app"
         THEN [json |-> JsonObject(
                  << <<"dependencies",
                       JsonObject(<< <<"react", JsonString("^18.2.0")>>,
                                     <<"lodash", JsonString("4.17.21")>> >>)>>,
                     <<"devDependencies",
                       JsonObject(<< <<"jest", JsonString("~29.0.0")>>,
                                     <<"react", JsonString("18.0.0")>> >>)>> >>)]
    ELSE [json |-> Invalid]

(***************************************************************************)
(* _collect_code_files                                                     *)
(***************************************************************************)
exclude_dirs ==
    {".git", "venv", "__pycache__", "node_modules", ".next", "dist", "build", "coverage"}
code_extensions ==
    {".py", ".js", ".ts", ".tsx", ".jsx", ".java", ".cpp", ".c", ".cs", ".go", ".rb", ".php"}

LooksLikeTest_NoSpec(name) == Contains(Lower(name), "test")

LooksLikeTest(name) == Contains(Lower(name), "test") \/ Contains(Lower(name), "spec")

\* one iteration of the os.walk loop at root, followed by the walk of the
\* sub-directories left in dirs
RECURSIVE WalkTree(_, _, _, _)
WalkTree(w, root, include_tests, max_depth) ==
    IF root \notin DirsOf(w) THEN <<>>
    ELSE LET entry == Tree(w)[CHOOSE k \in 1..Len(Tree(w)) : Tree(w)[k].path = root]
             depth == CountSep(SubSeq(root, Len(project_path) + 1, Len(root)))
             kept == SelectSeq(entry.dirs, LAMBDA d : d \notin exclude_dirs)
             dirs == IF ~include_tests
                     THEN SelectSeq(kept, LAMBDA d : ~LooksLikeTest(d))
                     ELSE kept
             here == SelectSeq(entry.files, LAMBDA file :
                         /\ Lower(SplitExt(file)) \in code_extensions
                         /\ ~(~include_tests /\ LooksLikeTest(file)))
         IN  IF depth >= max_depth THEN <<>>
             ELSE [k \in 1..Len(here) |-> PathJoin(root, here[k])]
                  \o Flatten([k \in 1..Len(dirs) |->
                                 WalkTree(w, PathJoin(root, dirs[k]), include_tests, max_depth)])

\* the directories os.walk yields (the values root takes at line 109), in order
RECURSIVE WalkVisited(_, _, _, _)
WalkVisited(w, root, include_tests, max_depth) ==
    IF root \notin DirsOf(w) THEN <<>>
    ELSE LET entry == Tree(w)[CHOOSE k \in 1..Len(Tree(w)) : Tree(w)[k].path = root]
             depth == CountSep(SubSeq(root, Len(project_path) + 1, Len(root)))
             kept == SelectSeq(entry.dirs, LAMBDA d : d \notin exclude_dirs)
             dirs == IF ~include_tests
                     THEN SelectSeq(kept, LAMBDA d : ~LooksLikeTest(d))
                     ELSE kept
         IN  IF depth >= max_depth THEN <<root>>
             ELSE <<root>>
                  \o Flatten([k \in 1..Len(dirs) |->
                                 WalkVisited(w, PathJoin(root, dirs[k]), include_tests, max_depth)])

_collect_code_files(w, include_tests, max_depth) ==
    WalkTree(w, project_path, include_tests, max_depth)

\* lines 47-50; specific_files = <<>> stands for None and for [], which line
\* 47 does not tell apart
\* a collection that keeps one entry per file
CollectFiles_Distinct(w, a) ==
    IF a.specific_files # <<>>
    THEN LET given == SelectSeq(a.specific_files,
                                LAMBDA f : Exists(w, PathJoin(project_path, f)))
             first == SelectSeq([k \in 1..Len(given) |-> k],
                                LAMBDA k : \A j \in 1..(k - 1) : given[j] # given[k])
         IN  [k \in 1..Len(first) |-> PathJoin(project_path, given[first[k]])]
    ELSE _collect_code_files(w, a.include_tests, a.max_depth)

CollectFiles(w, a) ==
    IF a.specific_files # <<>>
    THEN LET given == SelectSeq(a.specific_files,
                                LAMBDA f : Exists(w, PathJoin(project_path, f)))
         IN  [k \in 1..Len(given) |-> PathJoin(project_path, given[k])]
    ELSE _collect_code_files(w, a.include_tests, a.max_depth)

(***************************************************************************)
(* Spec: the route and analyze_project.  One action per step of the code;  *)
(* the bracket strategy's steps are JsFind, JsScan and JsEmit above.       *)
(***************************************************************************)
MaxRuns == 2
MaxFaults == 1

Seeds == {1, 2}

Arguments(specific_files, include_tests, max_depth) ==
    [specific_files |-> specific_files, include_tests |-> include_tests,
     max_depth |-> max_depth]

ArgChoices ==
    { Arguments(<<>>, TRUE, 10),
      Arguments(<<>>, FALSE, 10),
      Arguments(<<>>, TRUE, 1),
      Arguments(<<"app.py", "tests/test_app.py", "nope.py">>, FALSE, 10),
      Arguments(<<"src/Contest.py", "locked.py", "src/Contest.py">>, TRUE, 10),
      Arguments(<<"broken1.py", "../srv/secret.py", "/srv/secret.py">>, TRUE, 10) }

\* self.file_contents[rel_path] = content
DictSet(d, key, value) ==
    IF \E k \in 1..Len(d) : d[k][1] = key
    THEN [k \in 1..Len(d) |-> IF d[k][1] = key THEN <<key, value>> ELSE d[k]]
    ELSE Append(d, <<key, value>>)

\* self.file_contents.get(rel_path, "")
ContentOf(d, key) ==
    IF \E k \in 1..Len(d) : d[k][1] = key
    THEN d[CHOOSE k \in 1..Len(d) : d[k][1] = key][2]
    ELSE ""

IsPy(abs_path) == EndsWith(abs_path, ".py")
IsJs(abs_path) == \E e \in {".js", ".ts", ".tsx", ".jsx"} : EndsWith(abs_path, e)

\* the dict of lines 93-103; estimated_hours is the sum in tenths
Report(issues, files) ==
    LET scores == _calculate_scores(issues, files)
    IN  [overall_score |-> scores.overall,
         complexity_score |-> scores.complexity,
         duplication_score |-> scores.duplication,
         dependency_score |-> scores.dependency,
         total_issues |-> Len(issues),
         critical_issues |-> Len(SelectSeq(issues, LAMBDA i : i.severity = "critical")),
         estimated_hours |-> SumSeq([k \in 1..Len(issues) |-> issues[k].estimated_hours]),
         issues |-> issues,
         files_analyzed |-> files]

Init ==
    /\ world \in Worlds
    /\ hash_seed \in Seeds
    /\ runs = 0
    /\ faults = 0
    /\ args \in ArgChoices
    /\ pc = "idle"
    /\ code_files = <<>>
    /\ file_contents = <<>>
    /\ all_issues = <<>>
    /\ files_analyzed = 0
    /\ idx = 0
    /\ failed = <<>>
    /\ unread = <<>>
    /\ outcome = "none"
    /\ report = None
    /\ prev = None
    /\ ScoreIdle
    /\ CxIdle
    /\ UnitIdle
    /\ RateIdle
    /\ ConcIdle

\* a call that keeps what self.file_contents held
Begin_KeepContents ==
    /\ all_issues' = <<>>
    /\ files_analyzed' = 0
    /\ file_contents' = file_contents
    /\ code_files' = CollectFiles(world, args)
    /\ idx' = 1
    /\ failed' = <<>>
    /\ unread' = <<>>
    /\ pc' = IF code_files' = <<>> THEN "dup" ELSE "load"
    /\ UNCHANGED <<envVars, faults, outcome, report, js, notRun>>

\* lines 42-50: the locals, the reset of self.file_contents, the collection
Begin ==
    /\ all_issues' = <<>>
    /\ files_analyzed' = 0
    /\ file_contents' = <<>>
    /\ code_files' = CollectFiles(world, args)
    /\ idx' = 1
    /\ failed' = <<>>
    /\ unread' = <<>>
    /\ pc' = IF code_files' = <<>> THEN "dup" ELSE "load"
    /\ UNCHANGED <<envVars, faults, outcome, report, js, notRun>>

\* a request reaches the route (debt_router.py)
RouteCall ==
    /\ pc = "idle"
    /\ pc' = "route"
    /\ UNCHANGED <<envVars, faults, code_files, file_contents, all_issues, files_analyzed,
                   idx, failed, unread, outcome, report, js, notRun>>

RootRejected_Never(w) == FALSE

\* debt_router.py:103, if not os.path.exists(local_path)
RootRejected(w) == ~Exists(w, project_path)

\* debt_router.py:103-104, raise HTTPException(status_code=400)
RouteReject ==
    /\ pc = "route"
    /\ RootRejected(world)
    /\ outcome' = "http_400"
    /\ pc' = "done"
    /\ UNCHANGED <<envVars, faults, code_files, file_contents, all_issues, files_analyzed,
                   idx, failed, unread, report, js, notRun>>

\* debt_router.py:139, await analyzer.analyze_project(...)
RouteInvoke ==
    /\ pc = "route"
    /\ ~RootRejected(world)
    /\ Begin

\* analyze_project called on the analyzer itself
DirectCall ==
    /\ pc = "idle"
    /\ Begin

\* a second pass that stops at the first file it is done with
AfterFile_Abort(i) == "done"

\* a second pass that goes on to the dependency analysis
AfterFile_SkipDuplication(i) == IF i + 1 > Len(code_files) THEN "deps" ELSE "analyze"

\* where the second pass continues after the file at index i
AfterFile(i) == IF i + 1 > Len(code_files) THEN "dup" ELSE "analyze"

\* lines 53-60, one iteration of the first pass
Load ==
    /\ pc = "load"
    /\ LET file_path == code_files[idx]
           f == Read(world, file_path)
       IN  IF f.readable
           THEN /\ file_contents' = DictSet(file_contents, RelPath(file_path, project_path),
                                            f.content)
                /\ UNCHANGED unread
           ELSE /\ unread' = Append(unread, file_path)
                /\ UNCHANGED file_contents
    /\ IF idx = Len(code_files)
       THEN pc' = "analyze" /\ idx' = 1
       ELSE pc' = "load" /\ idx' = idx + 1
    /\ UNCHANGED <<envVars, faults, code_files, all_issues, files_analyzed, failed,
                   outcome, report, js, notRun>>

\* lines 65-70: rel_path, content, _analyze_complexity, all_issues.extend
AnalyzeComplexity ==
    /\ pc = "analyze"
    /\ LET file_path == code_files[idx]
           rel_path == RelPath(file_path, project_path)
           content == ContentOf(file_contents, rel_path)
       IN  IF IsPy(file_path)
           THEN /\ all_issues' = all_issues \o _analyze_python_complexity(Parse(content), rel_path)
                /\ pc' = "smells"
                /\ UNCHANGED js
           ELSE IF IsJs(file_path)
           THEN /\ js' = JsStart(content, rel_path, "complexity")
                /\ pc' = "js_cx"
                /\ UNCHANGED all_issues
           ELSE /\ pc' = "smells"
                /\ UNCHANGED <<all_issues, js>>
    /\ UNCHANGED <<envVars, faults, code_files, file_contents, files_analyzed, idx, failed,
                   unread, outcome, report, notRun>>

\* _analyze_js_complexity returns; all_issues.extend(complexity_issues)
JsComplexityReturn ==
    /\ pc = "js_cx"
    /\ js.pc = "done"
    /\ all_issues' = all_issues \o js.issues
    /\ js' = JsIdle
    /\ pc' = "smells"
    /\ UNCHANGED <<envVars, faults, code_files, file_contents, files_analyzed, idx, failed,
                   unread, outcome, report, notRun>>

\* lines 73-76: _detect_code_smells, all_issues.extend, files_analyzed += 1
DetectSmells ==
    /\ pc = "smells"
    /\ LET file_path == code_files[idx]
           rel_path == RelPath(file_path, project_path)
           content == ContentOf(file_contents, rel_path)
       IN  IF IsJs(file_path) /\ ~IsPy(file_path)
           THEN /\ js' = JsStart(content, rel_path, "long")
                /\ pc' = "js_long"
                /\ UNCHANGED <<all_issues, files_analyzed, idx>>
           ELSE /\ all_issues' =
                      IF IsPy(file_path)
                      THEN all_issues
                             \o _detect_long_python_functions(Parse(content), rel_path)
                             \o _detect_unused_python_variables(Parse(content), rel_path,
                                                                hash_seed)
                      ELSE all_issues
                /\ files_analyzed' = files_analyzed + 1
                /\ idx' = idx + 1
                /\ pc' = AfterFile(idx)
                /\ UNCHANGED js
    /\ UNCHANGED <<envVars, faults, code_files, file_contents, failed, unread, outcome,
                   report, notRun>>

\* _detect_long_js_functions returns; extend; files_analyzed += 1
JsLongReturn ==
    /\ pc = "js_long"
    /\ js.pc = "done"
    /\ all_issues' = all_issues \o js.issues
    /\ js' = JsIdle
    /\ files_analyzed' = files_analyzed + 1
    /\ idx' = idx + 1
    /\ pc' = AfterFile(idx)
    /\ UNCHANGED <<envVars, faults, code_files, file_contents, failed, unread, outcome,
                   report, notRun>>

\* lines 78-80: an exception raised by the complexity stage (pc = "analyze",
\* before line 70) or by the smell stage (pc = "smells", lines 73-74) is
\* logged and the loop continues
AnalyzeRaises ==
    /\ pc \in {"analyze", "smells"}
    /\ faults < MaxFaults
    /\ faults' = faults + 1
    /\ failed' = Append(failed, RelPath(code_files[idx], project_path))
    /\ idx' = idx + 1
    /\ pc' = AfterFile(idx)
    /\ UNCHANGED <<envVars, code_files, file_contents, all_issues, files_analyzed, unread,
                   outcome, report, js, notRun>>

\* lines 83-84
DetectDuplication ==
    /\ pc = "dup"
    /\ all_issues' = all_issues \o _detect_duplication(file_contents, hash_seed)
    /\ pc' = "deps"
    /\ UNCHANGED <<envVars, faults, code_files, file_contents, files_analyzed, idx, failed,
                   unread, outcome, report, js, notRun>>

\* lines 87-88
AnalyzeDependencies ==
    /\ pc = "deps"
    /\ all_issues' = all_issues
                       \o _analyze_dependencies(Requirements(world), PackageJson(world))
    /\ pc' = "score"
    /\ UNCHANGED <<envVars, faults, code_files, file_contents, files_analyzed, idx, failed,
                   unread, outcome, report, js, notRun>>

\* lines 91-103
Return ==
    /\ pc = "score"
    /\ report' = Report(all_issues, files_analyzed)
    /\ outcome' = "report"
    /\ pc' = "done"
    /\ UNCHANGED <<envVars, faults, code_files, file_contents, all_issues, files_analyzed,
                   idx, failed, unread, js, notRun>>

\* the next call on the same tree, in the same process or (another seed, a
\* fresh analyzer) in a restarted one
NextCall ==
    /\ pc = "done"
    /\ runs + 1 < MaxRuns
    /\ runs' = runs + 1
    /\ prev' = [args |-> args, outcome |-> outcome, report |-> report,
                clean |-> failed = <<>>]
    /\ args' \in ArgChoices
    /\ hash_seed' \in Seeds
    /\ file_contents' = IF hash_seed' = hash_seed THEN file_contents ELSE <<>>
    /\ pc' = "idle"
    /\ outcome' = "none"
    /\ report' = None
    /\ UNCHANGED <<world, faults, code_files, all_issues, files_analyzed, idx, failed,
                   unread, js, notRun>>

RunNext ==
    \/ RouteCall \/ RouteReject \/ RouteInvoke \/ DirectCall
    \/ Load \/ AnalyzeComplexity \/ JsComplexityReturn \/ DetectSmells \/ JsLongReturn
    \/ AnalyzeRaises \/ JsFind \/ JsScan \/ JsEmit
    \/ DetectDuplication \/ AnalyzeDependencies \/ Return

Next == RunNext \/ NextCall

Spec == Init /\ [][Next]_vars

\* One call, with the fairness of a sequential program: while the call has
\* not ended it takes a step.  Proceed is any change of state before the end;
\* its first disjunct is one such change, named so that the enabling
\* condition (pc # "done") is evaluated without running the analysis.
Proceed ==
    /\ pc # "done"
    /\ \/ (pc' = "next" /\ UNCHANGED <<scoreVars, cxVars, unitVars, rateVars, concVars, envVars, faults, code_files,
                                       file_contents, all_issues, files_analyzed, idx,
                                       failed, unread, outcome, report>>)
       \/ vars' # vars

FairSpec == Init /\ [][RunNext]_vars /\ WF_vars(Proceed)

(***************************************************************************)
(* LongSpec: the two long-function detectors applied to one file each.     *)
(* span is the number of source lines the file's function occupies, from   *)
(* the line of its def (or declaration) to its last line.                  *)
(***************************************************************************)
MaxSpan == 102

\* def h(): on line lineno, its last statement on line lineno + span - 1
PyOfSpan(type, lineno, span) ==
    PyModule(Def(type, "h", lineno, lineno + span - 1, <<PassStmt>>))

\* the declarations: on one line, or with line breaks before the name, the
\* '=' or the '('
LongJsHeaders ==
    {"function h(){", "const h = () => {", "let\nh = x => {", "function\nh\n(a) {"}

\* lead lines of text, the declaration, a nested pair of braces, and the
\* closing brace span - 1 lines below the first line of the declaration
JsOfSpan(header, lead, span) ==
    RepeatStr("//\n", lead) \o header \o "{}"
        \o RepeatStr("\n", span - 1 - NewlinesBefore(header, Len(header))) \o "}\n"

LongInit ==
    /\ u_input \in
          {[lang |-> "py", ast |-> PyOfSpan(t, l, n), span |-> n] :
              t \in {"FunctionDef", "AsyncFunctionDef"}, l \in {1, 7}, n \in 1..MaxSpan}
          \cup {[lang |-> "js", content |-> JsOfSpan(h, l, n), span |-> n] :
                  h \in LongJsHeaders, l \in {0, 2},
                  n \in (3..4) \cup ((MaxSpan - 53)..MaxSpan)}
    /\ u_pc = "ready"
    /\ u_output = <<>>
    /\ ScoreIdle
    /\ CxIdle
    /\ RunIdle
    /\ RateIdle
    /\ ConcIdle

LongPyCall ==
    /\ u_pc = "ready"
    /\ u_input.lang = "py"
    /\ u_pc' = "returned"
    /\ u_output' = _detect_long_python_functions(u_input.ast, "f.py")
    /\ UNCHANGED <<u_input, notUnit>>

LongJsCall ==
    /\ u_pc = "ready"
    /\ u_input.lang = "js"
    /\ u_pc' = "called"
    /\ js' = JsStart(u_input.content, "f.js", "long")
    /\ UNCHANGED <<u_input, u_output, scoreVars, cxRest, runVars, rateVars, concVars>>

LongJsReturn ==
    /\ u_pc = "called"
    /\ js.pc = "done"
    /\ u_pc' = "returned"
    /\ u_output' = js.issues
    /\ js' = JsIdle
    /\ UNCHANGED <<u_input, scoreVars, cxRest, runVars, rateVars, concVars>>

LongNext ==
    \/ LongPyCall
    \/ LongJsCall
    \/ JsFind
    \/ JsScan
    \/ JsEmit
    \/ LongJsReturn

LongSpec == LongInit /\ [][LongNext]_vars

(***************************************************************************)
(* DupSpec: _detect_duplication applied to self.file_contents holding up   *)
(* to MaxDupFiles files, in insertion order.                               *)
(***************************************************************************)
MaxDupFiles == 3

\* five lines of code; four of them already normalize to more than 50 characters
DupBlock ==
    "total = compute(1)\nprice = lookup(22)\nshare = divide(3)\nwrite(total, price)\nreturn share + 1"
\* five lines that normalize to 54 characters, four of them to 43
DupShortBlock == "a = f(10);\nb = g(20);\nc = h(30);\nd = k(40);\ne = m(50);"
\* DupBlock at another indentation
DupIndented ==
    "    total = compute(1)\n\tprice = lookup(22)\n    share  =  divide(3)\n    write(total, price)\n    return share + 1"

DupContents ==
    { DupBlock,
      DupBlock \o "\n",
      "# module a\n" \o DupBlock \o "\n",
      DupIndented \o "\n\n",
      DupShortBlock \o "\n",
      DupBlock \o "\n" \o DupBlock,
      RepeatStr("log.info(msg)\n", 7) }

DupNames == <<"a.py", "lib/b.py", "c.js", "d.ts">>

DupInit ==
    /\ u_input = <<>>
    /\ u_pc = "ready"
    /\ u_output = <<>>
    /\ ScoreIdle
    /\ CxIdle
    /\ RunIdle
    /\ RateIdle
    /\ ConcIdle

\* lines 53-57 of analyze_project: self.file_contents[rel_path] = content
DupAddFile ==
    /\ u_pc = "ready"
    /\ Len(u_input) < MaxDupFiles
    /\ \E content \in DupContents :
          u_input' = DictSet(u_input, DupNames[Len(u_input) + 1], content)
    /\ UNCHANGED <<u_pc, u_output, notUnit>>

DupCall ==
    /\ u_pc = "ready"
    /\ u_pc' = "returned"
    /\ \E seed \in Seeds : u_output' = _detect_duplication(u_input, seed)
    /\ UNCHANGED <<u_input, notUnit>>

DupNext == DupAddFile \/ DupCall

DupSpec == DupInit /\ [][DupNext]_vars

(***************************************************************************)
(* GodSpec: _analyze_python_complexity applied to files holding classes of *)
(* up to MaxMethods methods.                                               *)
(***************************************************************************)
MaxMethods == 22

Method(type, i) == Def(type, "m", i + 1, i + 1, <<PassStmt>>)
MethodWithInnerDef(i) ==
    Def("FunctionDef", "m", i + 1, i + 1, <<Def("FunctionDef", "inner", i + 1, i + 1, <<PassStmt>>)>>)
ClassOf(name, body) == Def("ClassDef", name, 1, Len(body) + 1, body)
AssignX == Node("Assign", <<Name("x", "Store"), Node("Constant", <<>>)>>)

GodShapes == {"plain", "async", "mixed", "members", "inner_defs", "inner_class", "in_function"}

\* a file whose class K has n methods as immediate children of its body
GodModule(shape, n) ==
    LET plain == [i \in 1..n |-> Method("FunctionDef", i)]
    IN  IF shape = "plain" THEN Node("Module", <<ClassOf("K", plain)>>)
        ELSE IF shape = "async"
             THEN Node("Module", <<ClassOf("K", [i \in 1..n |-> Method("AsyncFunctionDef", i)])>>)
        ELSE IF shape = "mixed"
             THEN Node("Module", <<ClassOf("K", [i \in 1..n |->
                      Method(IF i % 2 = 0 THEN "AsyncFunctionDef" ELSE "FunctionDef", i)])>>)
        ELSE IF shape = "members"
             \* an assignment, and a def under an if, beside the methods
             THEN Node("Module", <<ClassOf("K",
                      <<AssignX>> \o plain \o <<Node("If", <<LoadA, Method("FunctionDef", n + 1)>>)>>)>>)
        ELSE IF shape = "inner_defs"
             THEN Node("Module", <<ClassOf("K", [i \in 1..n |-> MethodWithInnerDef(i)])>>)
        ELSE IF shape = "inner_class"
             THEN Node("Module", <<ClassOf("Outer",
                      <<Method("FunctionDef", 1), ClassOf("K", plain), Method("FunctionDef", 2)>>)>>)
        ELSE Node("Module", <<Def("FunctionDef", "make", 1, n + 2, <<ClassOf("K", plain)>>)>>)

GodInit ==
    /\ u_input \in {GodModule(shape, n) : shape \in GodShapes, n \in 0..MaxMethods}
    /\ u_pc = "ready"
    /\ u_output = <<>>
    /\ ScoreIdle
    /\ CxIdle
    /\ RunIdle
    /\ RateIdle
    /\ ConcIdle

GodCall ==
    /\ u_pc = "ready"
    /\ u_pc' = "returned"
    /\ u_output' = _analyze_python_complexity(u_input, "k.py")
    /\ UNCHANGED <<u_input, notUnit>>

GodNext == GodCall

GodSpec == GodInit /\ [][GodNext]_vars

(***************************************************************************)
(* DepSpec: _analyze_dependencies applied to a project root holding a      *)
(* requirements.txt of up to MaxReqLines lines and a package.json.         *)
(***************************************************************************)
MaxReqLines == 2

ReqLines ==
    { "flask==1.1.2", "python==3.11", "python==2.7", "Python==2.7", "django==4.2.1",
      "x==10.5", "# flask==1.0", "", "  numpy == 1.26.0  ", "requests>=2.0",
      "pkg==3.5; python_version=='2.7'", "a==3==1.0", "b===2.0", "==0.9" }

PkgDicts ==
    { <<>>,
      << <<"react", JsonString("^18.2.0")>> >>,
      << <<"react", JsonString("18.2.0")>> >>,
      << <<"jest", JsonString("~29.0.0")>>, <<"react", JsonString("~18.2.0")>> >>,
      << <<"lodash", JsonString("*")>>, <<"jest", JsonString("")>>,
         <<"left-pad", JsonString("1.0.0 ^2")>> >> }

PackageJsons ==
    {Absent, Unreadable, [json |-> Invalid], [json |-> JsonArray],
     [json |-> JsonObject(<< <<"name", JsonString("app")>> >>)],
     [json |-> JsonObject(<< <<"dependencies", JsonArray>> >>)],
     [json |-> JsonObject(<< <<"devDependencies",
                  JsonObject(<< <<"a", JsonString("^1.0.0")>>, <<"b", JsonNumber>> >>)>> >>)]}
    \cup {[json |-> JsonObject(<< <<"dependencies", JsonObject(d)>> >>)] : d \in PkgDicts}
    \cup {[json |-> JsonObject(<< <<"name", JsonString("app")>>,
                                  <<"devDependencies", JsonObject(e)>>,
                                  <<"dependencies", JsonObject(d)>> >>)] :
             d \in PkgDicts, e \in PkgDicts}

HasText(manifest) == DOMAIN manifest = {"text"}

DepInit ==
    /\ u_input \in {[requirements |-> r, package_json |-> p] :
                      r \in {Absent, Unreadable, [text |-> "flask==1.1.2"]},
                      p \in PackageJsons}
                   \cup {[requirements |-> [text |-> ""], package_json |-> p] :
                           p \in {Absent, [json |-> JsonObject(<< <<"dependencies",
                                      JsonObject(<< <<"react", JsonString("^18.2.0")>> >>)>> >>)]}}
    /\ u_pc = "ready"
    /\ u_output = <<>>
    /\ ScoreIdle
    /\ CxIdle
    /\ RunIdle
    /\ RateIdle
    /\ ConcIdle

\* one more line in requirements.txt, ended by a line break or ending the file
DepAddLine ==
    /\ u_pc = "ready"
    /\ HasText(u_input.requirements)
    /\ LET text == u_input.requirements.text
       IN  /\ text = "" \/ EndsWith(text, NL)
           /\ Len(ReadLines(text)) < MaxReqLines
           /\ \E line \in ReqLines, end \in {NL, ""} :
                 /\ line \o end # ""
                 /\ u_input' = [u_input EXCEPT !.requirements = [text |-> text \o line \o end]]
    /\ UNCHANGED <<u_pc, u_output, notUnit>>

DepCall ==
    /\ u_pc = "ready"
    /\ u_pc' = "returned"
    /\ u_output' = _analyze_dependencies(u_input.requirements, u_input.package_json)
    /\ UNCHANGED <<u_input, notUnit>>

DepNext == DepAddLine \/ DepCall

DepSpec == DepInit /\ [][DepNext]_vars

(***************************************************************************)
(* CollectSpec: lines 46-50 of analyze_project (the choice between the     *)
(* given list and _collect_code_files) applied to bounded trees.  given    *)
(* tells whether the caller passed a list as specific_files; the list is   *)
(* <<>> when it passed None.                                               *)
(***************************************************************************)
MaxDepth == 5

CollectWorlds == {"app", "misc", "deep"}

SpecificLists ==
    { <<>>,
      <<"app.py">>,
      <<"node_modules/dep.js", "tests/test_app.py", "README.md", "nope.py", "app.py">>,
      <<"lib/x/y/z/z.cs", "build/gen.js", "spec/s.py", "Makefile", "lib/x/y/z/z.cs">>,
      <<"src", "main.go", "src/../bad.py">> }

CollectInit ==
    /\ u_input \in {[world |-> w, given |-> g, specific_files |-> f,
                     include_tests |-> t, max_depth |-> d] :
                       w \in CollectWorlds, g \in BOOLEAN, f \in SpecificLists,
                       t \in BOOLEAN, d \in 0..MaxDepth}
    /\ u_input.given \/ u_input.specific_files = <<>>
    /\ u_pc = "ready"
    /\ u_output = <<>>
    /\ ScoreIdle
    /\ CxIdle
    /\ RunIdle
    /\ RateIdle
    /\ ConcIdle

\* analyze_project, lines 46-50: code_files
CollectCall ==
    /\ u_pc = "ready"
    /\ u_pc' = "returned"
    /\ u_output' = CollectFiles(u_input.world,
                                Arguments(u_input.specific_files, u_input.include_tests,
                                          u_input.max_depth))
    /\ UNCHANGED <<u_input, notUnit>>

CollectNext == CollectCall

CollectSpec == CollectInit /\ [][CollectNext]_vars

(***************************************************************************)
(* RateSpec: RateLimitMiddleware.dispatch (src/backend/middleware/         *)
(* rate_limit.py) in front of the application.  Requests arrive one at a   *)
(* time (dispatch has no await between reading and writing the store) and  *)
(* the clock moves between them.  The settings are fixed while requests    *)
(* are served; the limit is at least one request.                          *)
(***************************************************************************)
MaxLimit == 2
MaxWindow == 2
MaxElapsed == 3
MaxRequests == 3

\* the requests: request.client (a host; the requests of a connection always
\* have one) and the X-Forwarded-For header (absent or its text)
Requests ==
    { [has_client |-> TRUE,  host |-> "a", has_header |-> FALSE, forwarded_for |-> ""],
      [has_client |-> TRUE,  host |-> "b", has_header |-> TRUE,  forwarded_for |-> "a, p"],
      [has_client |-> TRUE,  host |-> "b", has_header |-> TRUE,  forwarded_for |-> ""] }

\* lines 18-21
client_ip(request) ==
    IF request.has_header /\ request.forwarded_for # ""
    THEN Split(request.forwarded_for, ",")[1]
    ELSE IF request.has_client THEN request.host ELSE "unknown"

\* line 13: the defaultdict's value for a key not yet touched
NewClientData == [count |-> 0, window_start |-> 0]

\* line 27: rate_limit_store[client_ip]
ClientData(store, ip) == IF ip \in DOMAIN store THEN store[ip] ELSE NewClientData

\* a window that never ends
Expired_Never(client_data, current_time, window) == FALSE

\* line 30
Expired(client_data, current_time, window) ==
    current_time - client_data.window_start > window

\* lines 31-32
ResetWindow(client_data, current_time) ==
    [count |-> 0, window_start |-> current_time]

\* a limit that lets one request more through
OverLimit_Strict(client_data, limit) == client_data.count > limit

\* line 35
OverLimit(client_data, limit) == client_data.count >= limit

\* lines 37-40
TooManyRequests == [status_code |-> 429, detail |-> "Too many requests"]

\* the application's answer to a request that reaches it (GET /health)
AppResponse == [status_code |-> 200, detail |-> ""]

RateInit ==
    /\ settings \in [RATE_LIMIT_REQUESTS : 1..MaxLimit, RATE_LIMIT_WINDOW : 1..MaxWindow]
    /\ rate_limit_store = <<>>
    /\ now = MaxWindow + 1
    /\ responses = <<>>
    /\ ScoreIdle
    /\ CxIdle
    /\ RunIdle
    /\ UnitIdle
    /\ ConcIdle

\* time passes between two requests
Tick ==
    /\ now < MaxWindow + 1 + MaxElapsed
    /\ now' = now + 1
    /\ UNCHANGED <<settings, rate_limit_store, responses, notRate>>

\* dispatch, lines 16-45
dispatch(request) ==
    LET ip == client_ip(request)
        current_time == now
        window == settings.RATE_LIMIT_WINDOW
        limit == settings.RATE_LIMIT_REQUESTS
        found == ClientData(rate_limit_store, ip)
        client_data == IF Expired(found, current_time, window)
                       THEN ResetWindow(found, current_time)
                       ELSE found
        rejected == OverLimit(client_data, limit)
        stored == IF rejected THEN client_data
                  ELSE [client_data EXCEPT !.count = @ + 1]
    IN  /\ rate_limit_store' =
               [k \in DOMAIN rate_limit_store \cup {ip} |->
                   IF k = ip THEN stored ELSE rate_limit_store[k]]
        /\ responses' = Append(responses,
               [request |-> request, time |-> current_time,
                called_next |-> ~rejected,
                response |-> IF rejected THEN TooManyRequests ELSE AppResponse])
        /\ UNCHANGED <<settings, now, notRate>>

Dispatch ==
    /\ Len(responses) < MaxRequests
    /\ \E request \in Requests : dispatch(request)

RateNext ==
    \/ Tick
    \/ Dispatch

RateSpec == RateInit /\ [][RateNext]_vars

(***************************************************************************)
(* ConcSpec: requests to POST /analyze served by one event loop, all on    *)
(* the analyzer of debt_router.py:15.  A request's coroutine runs from the *)
(* moment the loop picks it until it suspends at an await or ends; no      *)
(* other coroutine runs in between.  Each request has its own locals; the  *)
(* analyzer's file_contents is shared.                                     *)
(***************************************************************************)
MaxTasks == 2

\* the bracket strategy run to its end
RECURSIVE JsRun(_)
JsRun(j) ==
    IF j.pc = "done" THEN j
    ELSE JsRun(IF j.pc = "find" THEN JsFindStep(j)
               ELSE IF j.pc = "scan" THEN JsScanStep(j)
               ELSE JsEmitStep(j))

\* lines 65-74, one iteration of the second pass that does not raise
FreshFileIssues(file_path, contents, seed) ==
    LET rel_path == RelPath(file_path, project_path)
        content == ContentOf(contents, rel_path)
    IN  IF IsPy(file_path)
        THEN _analyze_python_complexity(Parse(content), rel_path)
               \o _detect_long_python_functions(Parse(content), rel_path)
               \o _detect_unused_python_variables(Parse(content), rel_path, seed)
        ELSE IF IsJs(file_path)
        THEN JsRun(JsStart(content, rel_path, "complexity")).issues
               \o JsRun(JsStart(content, rel_path, "long")).issues
        ELSE <<>>

\* an analyze_project that awaits before its duplication detection
YieldPoints_BeforeDuplication == {"dup"}

\* the positions of analyze_project at which its coroutine suspends: lines
\* 27-103 hold no await, async for or async with
YieldPoints == {}

NoTask ==
    [pc |-> "none", args |-> None, code_files |-> <<>>, idx |-> 0, all_issues |-> <<>>,
     files_analyzed |-> 0, duplication_issues |-> <<>>, overlapped |-> FALSE,
     report |-> None]

ConcWorlds == {"app", "misc"}

\* the request bodies: the whole tree with or without its tests
ConcArgs == {Arguments(<<>>, TRUE, 10), Arguments(<<>>, FALSE, 10)}

ConcInit ==
    /\ world \in ConcWorlds
    /\ hash_seed \in Seeds
    /\ tasks = [t \in 1..MaxTasks |-> NoTask]
    /\ running = 0
    /\ runs = 0 /\ faults = 0 /\ args = None /\ pc = "off" /\ code_files = <<>>
    /\ file_contents = <<>> /\ all_issues = <<>> /\ files_analyzed = 0 /\ idx = 0
    /\ failed = <<>> /\ unread = <<>> /\ outcome = "none" /\ report = None /\ prev = None
    /\ ScoreIdle
    /\ CxIdle
    /\ UnitIdle
    /\ RateIdle

\* what a step of ConcSpec leaves alone
notConc ==
    <<scoreVars, cxVars, unitVars, rateVars, world, hash_seed, runs, faults, args, pc,
      code_files, all_issues, files_analyzed, idx, failed, unread, outcome, report, prev>>

\* a call is in progress: between its line 42 and its return
InProgress(task) == task.pc \notin {"none", "pending", "done"}

\* the event loop may execute the request's coroutine
CanRun(t) == running = t \/ (running = 0 /\ tasks[t].pc # "none")

\* whom the loop executes next once request t has moved to position p
Then(t, p) == IF p \in YieldPoints \cup {"done"} THEN 0 ELSE t

\* a request reaches the server; its handler is scheduled on the loop
Arrive(t) ==
    /\ tasks[t].pc = "none"
    /\ \E a \in ConcArgs :
          tasks' = [tasks EXCEPT ![t] =
                       [NoTask EXCEPT !.pc = "pending", !.args = a,
                                      !.overlapped = \E u \in 1..MaxTasks : InProgress(tasks[u])]]
    /\ UNCHANGED <<running, file_contents, notConc>>

\* debt_router.py:139 and lines 42-50
ConcBegin(t) ==
    /\ tasks[t].pc = "pending"
    /\ CanRun(t)
    /\ LET files == CollectFiles(world, tasks[t].args)
           p == IF files = <<>> THEN "dup" ELSE "load"
       IN  /\ tasks' = [tasks EXCEPT ![t].code_files = files, ![t].idx = 1, ![t].pc = p]
           /\ running' = Then(t, p)
    /\ file_contents' = <<>>
    /\ UNCHANGED notConc

\* lines 53-60, one iteration
ConcLoad(t) ==
    /\ tasks[t].pc = "load"
    /\ CanRun(t)
    /\ LET task == tasks[t]
           file_path == task.code_files[task.idx]
           f == Read(world, file_path)
           last == task.idx = Len(task.code_files)
           p == IF last THEN "analyze" ELSE "load"
       IN  /\ file_contents' =
                 IF f.readable
                 THEN DictSet(file_contents, RelPath(file_path, project_path), f.content)
                 ELSE file_contents
           /\ tasks' = [tasks EXCEPT ![t].idx = IF last THEN 1 ELSE task.idx + 1,
                                     ![t].pc = p]
           /\ running' = Then(t, p)
    /\ UNCHANGED notConc

\* lines 63-76, one iteration
ConcAnalyze(t) ==
    /\ tasks[t].pc = "analyze"
    /\ CanRun(t)
    /\ LET task == tasks[t]
           p == IF task.idx = Len(task.code_files) THEN "dup" ELSE "analyze"
       IN  /\ tasks' = [tasks EXCEPT
                 ![t].all_issues = @ \o FreshFileIssues(task.code_files[task.idx],
                                                        file_contents, hash_seed),
                 ![t].files_analyzed = @ + 1,
                 ![t].idx = @ + 1,
                 ![t].pc = p]
           /\ running' = Then(t, p)
    /\ UNCHANGED <<file_contents, notConc>>

\* lines 83-84
ConcDuplication(t) ==
    /\ tasks[t].pc = "dup"
    /\ CanRun(t)
    /\ LET found == _detect_duplication(file_contents, hash_seed)
       IN  tasks' = [tasks EXCEPT ![t].duplication_issues = found,
                                  ![t].all_issues = @ \o found,
                                  ![t].pc = "deps"]
    /\ running' = Then(t, "deps")
    /\ UNCHANGED <<file_contents, notConc>>

\* lines 87-103
ConcReturn(t) ==
    /\ tasks[t].pc = "deps"
    /\ CanRun(t)
    /\ LET issues == tasks[t].all_issues
                       \o _analyze_dependencies(Requirements(world), PackageJson(world))
       IN  tasks' = [tasks EXCEPT ![t].all_issues = issues,
                                  ![t].report = Report(issues, tasks[t].files_analyzed),
                                  ![t].pc = "done"]
    /\ running' = Then(t, "done")
    /\ UNCHANGED <<file_contents, notConc>>

ConcNext ==
    \E t \in 1..MaxTasks :
        \/ Arrive(t)
        \/ ConcBegin(t)
        \/ ConcLoad(t)
        \/ ConcAnalyze(t)
        \/ ConcDuplication(t)
        \/ ConcReturn(t)

ConcSpec == ConcInit /\ [][ConcNext]_vars

(***************************************************************************)
(* C1                                                                      *)
(***************************************************************************)
CompleteReport(r) ==
    /\ DOMAIN r = {"overall_score", "complexity_score", "duplication_score",
                   "dependency_score", "total_issues", "critical_issues",
                   "estimated_hours", "issues", "files_analyzed"}
    /\ r.total_issues = Len(r.issues)
    /\ \A score \in {r.overall_score, r.complexity_score, r.duplication_score,
                     r.dependency_score} : score \in 0..100

IsSuffix(tail, q) ==
    Len(tail) <= Len(q) /\ SubSeq(q, Len(q) - Len(tail) + 1, Len(q)) = tail

\* C1: when the per-file analysis of a collected file has raised, the run
\* still ends with a report: every file whose analysis did not raise was
\* analyzed (counted), the issues of duplication detection and dependency
\* analysis over the loaded contents are in the report, and the scores are
\* those of the whole issue list.
C1_FailureDoesNotAbort ==
    (pc = "done" /\ failed # <<>>) =>
        /\ outcome = "report"
        /\ report.files_analyzed = Len(code_files) - Len(failed)
        /\ IsSuffix(_detect_duplication(file_contents, hash_seed)
                      \o _analyze_dependencies(Requirements(world), PackageJson(world)),
                    report.issues)
        /\ report = Report(all_issues, files_analyzed)

C1_Witness ==
    /\ pc = "done"
    /\ outcome = "report"
    /\ Len(code_files) = 3
    /\ failed = <<RelPath(code_files[1], project_path)>>
    /\ report.files_analyzed = 2
    /\ \E k \in 1..Len(report.issues) : report.issues[k].issue_type = "duplication"
    /\ \E k \in 1..Len(report.issues) : report.issues[k].issue_type = "dependency"

C3_TerminatesWithOneOutcome ==
    /\ <>(pc = "done")
    /\ [](pc = "done" =>
             \/ outcome = "report" /\ CompleteReport(report)
             \/ outcome = "http_400" /\ report = None /\ world = "missing")

C3_Witness ==
    /\ pc = "done"
    /\ outcome = "report"
    /\ world = "app"
    /\ report.files_analyzed = 3
    /\ js = JsIdle

(***************************************************************************)
(* C5                                                                      *)
(***************************************************************************)
AllScores100(r) ==
    /\ r.overall_score = 100
    /\ r.complexity_score = 100
    /\ r.duplication_score = 100
    /\ r.dependency_score = 100

\* C5 as stated: a run that ends with files_analyzed = 0 reports no issue
\* and four scores of 100.
C5_EmptyProjectHasNoIssues ==
    (pc = "done" /\ outcome = "report" /\ report.files_analyzed = 0) =>
        /\ report.total_issues = 0
        /\ report.issues = <<>>
        /\ AllScores100(report)

\* C5, amended: a run that ends with files_analyzed = 0 reports four scores
\* of 100 whatever issues it found, and total_issues is the length of the
\* issue list; the list is empty when no file was collected and neither
\* manifest yields an issue.
C5_EmptyProjectScores100 ==
    (pc = "done" /\ outcome = "report" /\ report.files_analyzed = 0) =>
        /\ AllScores100(report)
        /\ report.total_issues = Len(report.issues)
        /\ (code_files = <<>>
            /\ _analyze_dependencies(Requirements(world), PackageJson(world)) = <<>>)
              => report.issues = <<>>

C5_Witness ==
    /\ pc = "done"
    /\ outcome = "report"
    /\ report.files_analyzed = 0
    /\ report.total_issues > 0
    /\ AllScores100(report)

(***************************************************************************)
(* C6                                                                      *)
(***************************************************************************)
\* C6: two calls on the same tree with the same arguments, neither of which
\* met an exception in its per-file analysis, return identical reports.
C6_SameReportTwice ==
    (pc = "done" /\ outcome = "report" /\ failed = <<>> /\ prev # None) =>
        ((prev.outcome = "report" /\ prev.clean /\ prev.args = args) =>
            report = prev.report)

(***************************************************************************)
(* C7                                                                      *)
(***************************************************************************)
Range(q) == {q[k] : k \in 1..Len(q)}

\* C7: no complexity, architecture or smell issue of the report refers to a
\* file whose per-file analysis raised.
C7_FailedFileContributesNothing ==
    (pc = "done" /\ outcome = "report") =>
        \A k \in 1..Len(report.issues) :
            report.issues[k].issue_type \in {"complexity", "architecture", "smell"}
                => report.issues[k].file_path \notin Range(failed)

(***************************************************************************)
(* C8                                                                      *)
(***************************************************************************)
IssuesOf(r, manifest_name) ==
    SelectSeq(r.issues, LAMBDA i : i.issue_type = "dependency" /\ i.file_path = manifest_name)

\* C8: a manifest whose reading or parsing fails contributes no dependency
\* issue, the run still returns its report, and the other manifest
\* contributes the issues of its own analysis.
C8_FailedManifestContributesNothing ==
    (pc = "done" /\ outcome = "report") =>
        /\ RequirementsRaises(Requirements(world)) =>
              /\ IssuesOf(report, "requirements.txt") = <<>>
              /\ IssuesOf(report, "package.json") = PackageJsonIssues(PackageJson(world))
        /\ PackageJsonRaises(PackageJson(world)) =>
              /\ IssuesOf(report, "package.json") = <<>>
              /\ IssuesOf(report, "requirements.txt")
                     = RequirementsIssues(Requirements(world))

(***************************************************************************)
(* C4                                                                      *)
(***************************************************************************)
RefCategory(category_issues, files) ==
    IF category_issues = <<>> THEN 100
    ELSE Max(0, 100 - ((10 * Penalty(category_issues)) \div files))

RefScores(issues, files) ==
    IF files = 0
    THEN [overall |-> 100, complexity |-> 100, duplication |-> 100, dependency |-> 100]
    ELSE LET c == RefCategory(SelectSeq(issues, LAMBDA i :
                      i.issue_type \in {"complexity", "smell", "architecture"}), files)
             d == RefCategory(OfType(issues, "duplication"), files)
             e == RefCategory(OfType(issues, "dependency"), files)
         IN  [overall |-> (4 * c + 3 * d + 3 * e) \div 10,
              complexity |-> c, duplication |-> d, dependency |-> e]

\* C4: for every issue list and files_analyzed >= 0 the returned scores are
\* four integers in 0..100 equal to the reference formula (bucket score
\* max(0, 100 - floor(10 * penalty / files)), overall = floor(0.4c + 0.3d + 0.3e)).
C4_ScoresEqualReference ==
    sc_scores # None =>
        /\ \A k \in DOMAIN sc_scores : sc_scores[k] \in 0..100
        /\ sc_scores = RefScores(sc_issues, sc_files)

(***************************************************************************)
(* C9                                                                      *)
(***************************************************************************)
RECURSIVE RefDecisions(_), RefDecisionsAll(_)
RefDecisions(node) ==
    (IF node.type \in {"If", "While", "For", "AsyncFor", "ExceptHandler"} THEN 1
     ELSE IF node.type = "BoolOp" THEN Len(node.kids) - 1
     ELSE 0) + RefDecisionsAll(node.kids)
RefDecisionsAll(nodes) ==
    IF nodes = <<>> THEN 0 ELSE RefDecisions(Head(nodes)) + RefDecisionsAll(Tail(nodes))

IfAandBandC == Def("FunctionDef", "f", 1, 4, <<Node("If", <<BoolOpN(3), PassStmt>>)>>)

\* C9: for every function node of a parsed Python file the computed complexity
\* is 1 + #(If, While, For, AsyncFor) + #ExceptHandler + sum over BoolOp nodes
\* of (operands - 1), over the function's subtree; `if a and b and c:` gives 4.
C9_PyComplexityFormula ==
    (cx_pc \in {"measured", "returned"} /\ cx_input.lang = "py") =>
        LET funcs == PyFunctionNodes(cx_input.ast)
        IN  /\ Len(cx_measured) = Len(funcs)
            /\ \A i \in 1..Len(funcs) : cx_measured[i] = 1 + RefDecisions(funcs[i])
            /\ cx_input.ast = PyModule(IfAandBandC) => cx_measured = <<4>>

C9_Witness ==
    /\ cx_pc = "measured"
    /\ cx_input = [lang |-> "py", ast |-> PyModule(IfAandBandC)]
    /\ cx_measured = <<4>>

(***************************************************************************)
(* C10                                                                     *)
(***************************************************************************)
ExpectedOutcome(c) ==
    IF c <= 15 THEN <<>>
    ELSE <<[issue_type |-> "complexity",
            severity |-> IF c <= 20 THEN "medium" ELSE IF c <= 25 THEN "high" ELSE "critical",
            estimated_hours |-> 5 * (c - 15)]>>

RECURSIVE ExpectedOutcomes(_)
ExpectedOutcomes(cs) ==
    IF cs = <<>> THEN <<>> ELSE ExpectedOutcome(Head(cs)) \o ExpectedOutcomes(Tail(cs))

Outcomes(issues) ==
    [i \in 1..Len(issues) |->
        [issue_type |-> issues[i].issue_type, severity |-> issues[i].severity,
         estimated_hours |-> issues[i].estimated_hours]]

\* C10: both strategies map a measured complexity c to the same outcome: no
\* issue when c <= 15, else one complexity issue, medium for 16..20, high for
\* 21..25, critical above, with estimated_hours = (c - 15) * 0.5.
C10_SameBands ==
    cx_pc = "returned" =>
        Outcomes(OfType(cx_issues, "complexity")) = ExpectedOutcomes(cx_measured)

C10_Witness ==
    /\ cx_pc = "returned"
    /\ cx_input.lang = "js"
    /\ cx_measured = <<16>>
    /\ Len(cx_issues) = 1
    /\ cx_issues[1].severity = "medium"
    /\ cx_issues[1].estimated_hours = 5

(***************************************************************************)
(* C11                                                                     *)
(***************************************************************************)
\* the outcome the thresholds give for a function of n source lines
LongOutcomeBySpan(n) ==
    IF n > 100 THEN <<"high">> ELSE IF n > 50 THEN <<"medium">> ELSE <<>>

LongOutcome ==
    [k \in 1..Len(u_output) |->
        IF u_output[k].issue_type = "smell" /\ u_output[k].category = "Long Method"
        THEN u_output[k].severity ELSE "other"]

\* C11: a function spanning 50 source lines is not flagged, one spanning 51
\* lines is flagged as a Long Method smell of severity medium, one spanning
\* 101 lines is flagged with severity high (Python and JS/TS alike)
C11_LongBySpan ==
    (u_pc = "returned" /\ u_input.span \in {50, 51, 101})
        => LongOutcome = LongOutcomeBySpan(u_input.span)

(***************************************************************************)
(* C12                                                                     *)
(***************************************************************************)
\* the windows of five consecutive lines of the corpus, as <<file, line>>,
\* and the normalized text of each
RefWindowText(contents) ==
    LET lines == [k \in 1..Len(contents) |-> Split(contents[k][2], NL)]
        places == UNION {{<<k, i>> : i \in 1..(Len(lines[k]) - 4)} : k \in 1..Len(contents)}
    IN  [p \in places |->
            CollapseSpace(Strip(Join(SubSeq(lines[p[1]], p[2], p[2] + 4), NL)))]

RefDuplicates(contents) ==
    LET text == RefWindowText(contents)
        long == {p \in DOMAIN text : Len(text[p]) > 50}
        same(p) == {q \in long : text[q] = text[p]}
        before(p, q) == p[1] < q[1] \/ (p[1] = q[1] /\ p[2] <= q[2])
    IN  \* one entry per normalized text found at two or more places
        {[file_path |-> contents[p[1]][1], line_start |-> p[2],
          count |-> Cardinality(same(p))] :
            p \in {q \in long : Cardinality(same(q)) >= 2
                                /\ \A r \in same(q) : before(q, r)}}

\* C12: the duplication issues are, one for one, the normalized 5-line
\* windows longer than 50 characters recorded at two or more places: each is
\* reported once, at its first place, with severity medium if it occurs more
\* than 3 times and low otherwise, and 0.5 hours per occurrence
C12_OneIssuePerDuplicate ==
    u_pc = "returned" =>
        LET ref == RefDuplicates(u_input)
        IN  /\ Len(u_output) = Cardinality(ref)
            /\ \A d \in ref :
                  \E n \in 1..Len(u_output) :
                     /\ u_output[n].issue_type = "duplication"
                     /\ u_output[n].file_path = d.file_path
                     /\ u_output[n].line_start = d.line_start
                     /\ u_output[n].severity = (IF d.count > 3 THEN "medium" ELSE "low")
                     /\ u_output[n].estimated_hours = 5 * d.count

C12_Witness ==
    /\ u_pc = "returned"
    /\ Len(u_input) = 3
    /\ Len(u_output) >= 2
    /\ \E n \in 1..Len(u_output) : u_output[n].severity = "medium"
    /\ \E n \in 1..Len(u_output) : u_output[n].severity = "low" /\ u_output[n].line_start > 1

(***************************************************************************)
(* C13                                                                     *)
(***************************************************************************)
\* C13: when one 5-line block (normalized length > 50) is the whole text of
\* three distinct files, the run yields exactly one duplication issue, of
\* severity low and 1.5 hours
C13_OneIssueForThreeFiles ==
    (/\ u_pc = "returned"
     /\ Len(u_input) = 3
     /\ \A k \in 1..3 : u_input[k][2] \in {DupBlock, DupBlock \o "\n"})
        => /\ Len(u_output) = 1
           /\ u_output[1].severity = "low"
           /\ u_output[1].estimated_hours = 15

(***************************************************************************)
(* C14                                                                     *)
(***************************************************************************)
\* the class nodes of a file, at any depth
RECURSIVE ClassNodes(_)
ClassNodes(node) ==
    (IF node.type = "ClassDef" THEN {node} ELSE {})
        \cup UNION {ClassNodes(node.kids[i]) : i \in 1..Len(node.kids)}

\* the function and async function definitions that are immediate children
ImmediateMethods(class) ==
    Cardinality({i \in 1..Len(class.kids) :
                    class.kids[i].type \in {"FunctionDef", "AsyncFunctionDef"}})

GodIssuesFor(class) ==
    {n \in 1..Len(u_output) :
        /\ u_output[n].issue_type = "architecture"
        /\ u_output[n].category = "God Object"
        /\ u_output[n].title[1] = class.name}

\* C14: a class whose body holds at most 20 function and async function
\* definitions as immediate children yields no issue; one with 21 or more
\* yields exactly one architecture / God Object issue, of severity high
C14_GodObjectAt21 ==
    u_pc = "returned" =>
        \A class \in ClassNodes(u_input) :
            /\ Cardinality(GodIssuesFor(class)) = (IF ImmediateMethods(class) >= 21 THEN 1 ELSE 0)
            /\ \A n \in GodIssuesFor(class) : u_output[n].severity = "high"

C14_Witness ==
    /\ u_pc = "returned"
    /\ \E class \in ClassNodes(u_input) :
          /\ ImmediateMethods(class) = 21
          /\ Cardinality(GodIssuesFor(class)) = 1
    /\ \E class \in ClassNodes(u_input) :
          /\ ImmediateMethods(class) < 21
          /\ Len(SelectSeq(Walk(<<class>>), IsFunction)) > 21

(***************************************************************************)
(* C15                                                                     *)
(***************************************************************************)
\* the text after the first "==" of a line, and its part before the next "=="
RefAfterFirst(line) == SubSeq(line, FindFrom(line, "==", 1) + 2, Len(line))
RefUpToNext(line) ==
    LET rest == RefAfterFirst(line)
        q == FindFrom(rest, "==", 1)
    IN  IF q = 0 THEN rest ELSE SubSeq(rest, 1, q - 1)
RefPackageName(line) == Strip(SubSeq(line, 1, FindFrom(line, "==", 1) - 1))

LooksOld(version) == \E old \in {"0.", "1.", "2."} : Contains(version, old)

\* the issues of requirements.txt at line n
ReqIssuesAt(n) ==
    {k \in 1..Len(u_output) :
        u_output[k].file_path = "requirements.txt" /\ u_output[k].line_start = n}

ReqIssueShape(k, line) ==
    /\ u_output[k].issue_type = "dependency"
    /\ u_output[k].category = "Potentially Outdated Dependency"
    /\ u_output[k].severity = "low"
    /\ u_output[k].title[1] = RefPackageName(line)

\* C15 as stated: line n yields exactly one low 'Potentially Outdated
\* Dependency' issue naming its package iff, trimmed, it is non-empty, does
\* not start with '#', contains '==', the text after the first '==' contains
\* '0.', '1.' or '2.', and the package name is not 'python'
C15_IssueIffOldAfterFirst ==
    (u_pc = "returned" /\ HasText(u_input.requirements)) =>
        LET lines == ReadLines(u_input.requirements.text)
        IN  \A n \in 1..Len(lines) :
               LET line == Strip(lines[n])
                   expected == IF line # "" /\ ~StartsWith(line, "#") /\ Contains(line, "==")
                               THEN LooksOld(RefAfterFirst(line)) /\ RefPackageName(line) # "python"
                               ELSE FALSE
               IN  /\ Cardinality(ReqIssuesAt(n)) = (IF expected THEN 1 ELSE 0)
                   /\ \A k \in ReqIssuesAt(n) : ReqIssueShape(k, line)

\* C15 (amended): the same, the version text being the part of the line
\* between its first '==' and its next '==' (or its end)
C15_IssueIffOldVersion ==
    (u_pc = "returned" /\ HasText(u_input.requirements)) =>
        LET lines == ReadLines(u_input.requirements.text)
        IN  \A n \in 1..Len(lines) :
               LET line == Strip(lines[n])
                   expected == IF line # "" /\ ~StartsWith(line, "#") /\ Contains(line, "==")
                               THEN LooksOld(RefUpToNext(line)) /\ RefPackageName(line) # "python"
                               ELSE FALSE
               IN  /\ Cardinality(ReqIssuesAt(n)) = (IF expected THEN 1 ELSE 0)
                   /\ \A k \in ReqIssuesAt(n) : ReqIssueShape(k, line)

C15_Witness ==
    /\ u_pc = "returned"
    /\ HasText(u_input.requirements)
    /\ u_input.requirements.text = "python==3.11\nflask==1.1.2"
    /\ Cardinality(ReqIssuesAt(2)) = 1
    /\ ReqIssuesAt(1) = {}

(***************************************************************************)
(* C16                                                                     *)
(***************************************************************************)
WellFormed(manifest) == manifest # Absent /\ ~PackageJsonRaises(manifest)

\* the members of a section of package.json (none when the section is absent)
RefSection(manifest, key) ==
    LET hit == {k \in 1..Len(manifest.json.items) : manifest.json.items[k][1] = key}
    IN  IF hit = {} THEN <<>> ELSE manifest.json.items[CHOOSE k \in hit : TRUE][2].items

RefNames(section) == {section[k][1] : k \in 1..Len(section)}
RefVersion(section, name) == section[CHOOSE k \in 1..Len(section) : section[k][1] = name][2].text

PkgIssuesFor(name) ==
    {k \in 1..Len(u_output) :
        u_output[k].file_path = "package.json" /\ u_output[k].title[1] = name}

\* C16: for a well-formed package.json, every package name of the union of
\* dependencies and devDependencies whose version string (that of
\* devDependencies when the name is in both) starts with '^' or '~' gets
\* exactly one low 'Flexible Dependency Version' issue, and nothing else
\* from package.json is reported
C16_FlexibleVersions ==
    (u_pc = "returned" /\ WellFormed(u_input.package_json)) =>
        LET deps == RefSection(u_input.package_json, "dependencies")
            dev == RefSection(u_input.package_json, "devDependencies")
            names == RefNames(deps) \cup RefNames(dev)
            version(name) == IF name \in RefNames(dev) THEN RefVersion(dev, name)
                             ELSE RefVersion(deps, name)
            flexible == {name \in names : \E c \in {"^", "~"} : StartsWith(version(name), c)}
        IN  /\ \A name \in names :
                  Cardinality(PkgIssuesFor(name)) = (IF name \in flexible THEN 1 ELSE 0)
            /\ \A k \in 1..Len(u_output) :
                  u_output[k].file_path = "package.json" =>
                     /\ u_output[k].title[1] \in flexible
                     /\ u_output[k].issue_type = "dependency"
                     /\ u_output[k].category = "Flexible Dependency Version"
                     /\ u_output[k].severity = "low"

C16_Witness ==
    /\ u_pc = "returned"
    /\ WellFormed(u_input.package_json)
    /\ RefSection(u_input.package_json, "dependencies") = << <<"react", JsonString("^18.2.0")>> >>
    /\ RefSection(u_input.package_json, "devDependencies")
          = << <<"jest", JsonString("~29.0.0")>>, <<"react", JsonString("~18.2.0")>> >>
    /\ Cardinality(PkgIssuesFor("react")) = 1
    /\ Cardinality(PkgIssuesFor("jest")) = 1

(***************************************************************************)
(* C17                                                                     *)
(***************************************************************************)
Traversal == u_pc = "returned" /\ ~u_input.given

\* the components of a path below the root: its directories, then its file name
Below(path) == PathParts(RelPath(path, project_path))
DirsBelow(path) == SubSeq(Below(path), 1, Len(Below(path)) - 1)
NameOf(path) == Below(path)[Len(Below(path))]

NamedTestOrSpec(name) == Contains(name, "test") \/ Contains(name, "spec")

\* C17: in traversal mode every collected path has an extension of the
\* recognized set (compared in lower case) and no directory below the root
\* named .git, venv, __pycache__, node_modules, .next, dist, build or
\* coverage; with include_tests false, no directory below the root and no
\* file name contains 'test' or 'spec'
C17_CollectedPathsAreEligible ==
    Traversal =>
        \A n \in 1..Len(u_output) :
            LET path == u_output[n]
                dirs == DirsBelow(path)
            IN  /\ Lower(SplitExt(NameOf(path))) \in code_extensions
                /\ \A k \in 1..Len(dirs) : dirs[k] \notin exclude_dirs
                /\ ~u_input.include_tests =>
                      /\ \A k \in 1..Len(dirs) : ~NamedTestOrSpec(dirs[k])
                      /\ ~NamedTestOrSpec(NameOf(path))

C17_Witness ==
    /\ Traversal
    /\ u_input.world = "deep"
    /\ ~u_input.include_tests
    /\ u_input.max_depth = MaxDepth
    /\ u_output = <<"/proj/a.PY", "/proj/main.py", "/proj/Build/out.js", "/proj/lib/mod.rb",
                    "/proj/lib/util.ts", "/proj/lib/x/x.go", "/proj/lib/x/y/y.c",
                    "/proj/lib/x/y/z/z.cs", "/proj/src/app.jsx">>

(***************************************************************************)
(* C18                                                                     *)
(***************************************************************************)
\* depth of a directory relative to the root (root = 0)
DepthOf(dir) == Len(Below(dir))

\* a directory none of whose components below the root is dropped by the walk
NotExcluded(dir) ==
    \A k \in 1..Len(Below(dir)) :
        /\ Below(dir)[k] \notin exclude_dirs
        /\ u_input.include_tests \/ ~LooksLikeTest(Below(dir)[k])

\* the files of a directory that pass the extension and test-name filters
EligibleFiles(dir) ==
    LET entry == Tree(u_input.world)[CHOOSE k \in 1..Len(Tree(u_input.world)) :
                                        Tree(u_input.world)[k].path = dir]
    IN  {PathJoin(dir, entry.files[m]) : m \in
            {m \in 1..Len(entry.files) :
                /\ Lower(SplitExt(entry.files[m])) \in code_extensions
                /\ u_input.include_tests \/ ~LooksLikeTest(entry.files[m])}}

\* C18: in traversal mode a non-excluded directory at depth d <= max_depth
\* is visited and its eligible files are collected, and no directory at
\* depth > max_depth is visited
C18_DepthLimit ==
    Traversal =>
        LET visited == Range(WalkVisited(u_input.world, project_path,
                                         u_input.include_tests, u_input.max_depth))
        IN  /\ \A dir \in DirsOf(u_input.world) :
                  (NotExcluded(dir) /\ DepthOf(dir) <= u_input.max_depth) =>
                      /\ dir \in visited
                      /\ EligibleFiles(dir) \subseteq Range(u_output)
            /\ \A dir \in visited : DepthOf(dir) <= u_input.max_depth

(***************************************************************************)
(* C19                                                                     *)
(***************************************************************************)
\* the entries of the list whose path joined to the root exists, joined, in order
RefGivenFiles ==
    LET kept == SelectSeq(u_input.specific_files,
                          LAMBDA f : Exists(u_input.world, PathJoin(project_path, f)))
    IN  [k \in 1..Len(kept) |-> PathJoin(project_path, kept[k])]

\* C19: whenever a list is given as specific_files, an empty one included,
\* the files to analyze are exactly its entries that exist under the root,
\* in list order, whatever the exclusion list, the depth limit, include_tests
\* and the extension filter say
C19_GivenListBypassesTraversal ==
    (u_pc = "returned" /\ u_input.given) => u_output = RefGivenFiles

(***************************************************************************)
(* C20                                                                     *)
(***************************************************************************)
Severities == {"critical", "high", "medium", "low"}
IssueTypes == {"complexity", "smell", "duplication", "dependency", "architecture"}

\* C20: every issue of every report returned has a severity among critical,
\* high, medium and low, one issue_type among complexity, smell, duplication,
\* dependency and architecture, and estimated_hours >= 0
C20_IssueFieldsInRange ==
    outcome = "report" =>
        \A n \in 1..Len(report.issues) :
            /\ report.issues[n].severity \in Severities
            /\ report.issues[n].issue_type \in IssueTypes
            /\ report.issues[n].estimated_hours >= 0

C20_Witness ==
    /\ pc = "done"
    /\ outcome = "report"
    /\ {report.issues[n].issue_type : n \in 1..Len(report.issues)}
          = {"complexity", "smell", "duplication", "dependency"}
    /\ {report.issues[n].severity : n \in 1..Len(report.issues)} = {"medium", "low"}

(***************************************************************************)
(* C21  Nothing persists from one call to the next.                        *)
(***************************************************************************)
\* the Corpus a newly constructed analyzer (self.file_contents = {}) builds
\* from the files collected
RECURSIVE FreshContents(_, _, _)
FreshContents(w, files, acc) ==
    IF files = <<>> THEN acc
    ELSE LET f == Read(w, Head(files))
         IN  FreshContents(w, Tail(files),
                 IF f.readable
                 THEN DictSet(acc, RelPath(Head(files), project_path), f.content)
                 ELSE acc)

\* what a newly constructed analyzer returns for a tree and arguments when
\* no per-file analysis raises
FreshReport(w, a, seed) ==
    LET files == CollectFiles(w, a)
        contents == FreshContents(w, files, <<>>)
        issues == Flatten([k \in 1..Len(files) |-> FreshFileIssues(files[k], contents, seed)])
                    \o _detect_duplication(contents, seed)
                    \o _analyze_dependencies(Requirements(w), PackageJson(w))
    IN  Report(issues, Len(files))

\* C21: the report of every call that met no exception in its per-file
\* analysis, whatever calls the analyzer served before, is the report a
\* newly constructed analyzer returns for the same tree and arguments, and
\* the file contents its duplication detection reads are those of the files
\* this call collected
C21_NothingPersists ==
    /\ (pc = "done" /\ outcome = "report" /\ failed = <<>>) =>
           report = FreshReport(world, args, hash_seed)
    /\ pc \in {"analyze", "dup"} =>
           file_contents = FreshContents(world, code_files, <<>>)

\* a second call in the same process that collects fewer files than the first
C21_Witness ==
    /\ pc = "done"
    /\ outcome = "report"
    /\ failed = <<>>
    /\ runs = 1
    /\ prev # None
    /\ world = "app"
    /\ prev.outcome = "report"
    /\ prev.report.files_analyzed = 3
    /\ report.files_analyzed = 2
    /\ ~\E n \in 1..Len(report.issues) : report.issues[n].issue_type = "duplication"
    /\ \E n \in 1..Len(prev.report.issues) : prev.report.issues[n].issue_type = "duplication"

(***************************************************************************)
(* C22  At most RATE_LIMIT_REQUESTS requests of a client pass per window.  *)
(***************************************************************************)
\* the client a request counts for: the first X-Forwarded-For entry if the
\* header names one, else the client host
RateClient(request) ==
    IF request.has_header /\ Len(request.forwarded_for) > 0
    THEN LET comma == FindFrom(request.forwarded_for, ",", 1)
         IN  IF comma = 0 THEN request.forwarded_for
             ELSE SubSeq(request.forwarded_for, 1, comma - 1)
    ELSE IF request.has_client THEN request.host ELSE "unknown"

\* the requests before the n-th that came from the n-th request's client
EarlierOf(n) ==
    {m \in 1..(n - 1) : RateClient(responses[m].request) = RateClient(responses[n].request)}

\* the start of the fixed window the n-th request falls in: a client's first
\* request starts a window, and so does a request that arrives more than
\* RATE_LIMIT_WINDOW seconds after the start of the client's latest window
RECURSIVE WindowOf(_)
WindowOf(n) ==
    IF EarlierOf(n) = {} THEN responses[n].time
    ELSE LET m == CHOOSE k \in EarlierOf(n) : \A j \in EarlierOf(n) : j <= k
         IN  IF responses[n].time - WindowOf(m) > settings.RATE_LIMIT_WINDOW
             THEN responses[n].time
             ELSE WindowOf(m)

\* the requests of the n-th request's client passed earlier in its window
PassedBefore(n) ==
    {m \in EarlierOf(n) : WindowOf(m) = WindowOf(n) /\ responses[m].called_next}

\* C22: for every client, the requests of one window are passed to the
\* application until RATE_LIMIT_REQUESTS of them have been passed, and every
\* further request of that window is answered 429 'Too many requests' without
\* reaching the application; so no window passes more than the limit, and no
\* stored count exceeds it.  Stated of the request answered last: every
\* earlier answer was the last one of an earlier state.
C22_AtMostLimitPerWindow ==
    /\ \A n \in {Len(responses)} \ {0} :
          /\ responses[n].called_next <=>
                 Cardinality(PassedBefore(n)) < settings.RATE_LIMIT_REQUESTS
          /\ ~responses[n].called_next => responses[n].response = TooManyRequests
          /\ responses[n].called_next => responses[n].response = AppResponse
          /\ Cardinality(PassedBefore(n) \cup {n}) > settings.RATE_LIMIT_REQUESTS
                 => ~responses[n].called_next
          /\ responses[n].time - WindowOf(n) \in 0..settings.RATE_LIMIT_WINDOW
    /\ \A ip \in DOMAIN rate_limit_store :
          rate_limit_store[ip].count <= settings.RATE_LIMIT_REQUESTS

\* a client behind a proxy and the same client seen directly use up the
\* limit of two together, and the third request of the window is rejected
C22_Witness ==
    /\ settings.RATE_LIMIT_REQUESTS = 2
    /\ Len(responses) = 3
    /\ responses[1].request.host = "a" /\ responses[1].called_next
    /\ responses[2].request.host = "b" /\ responses[2].called_next
    /\ RateClient(responses[2].request) = "a"
    /\ RateClient(responses[3].request) = "a"
    /\ responses[3].response.status_code = 429
    /\ responses[3].time = responses[1].time + settings.RATE_LIMIT_WINDOW
    /\ rate_limit_store["a"].count = 2

(***************************************************************************)
(* C23  The window reset after a rejection.                                *)
(***************************************************************************)
\* the client of the request that the step has just answered
AnsweredClient == RateClient(responses'[Len(responses')].request)

\* the requests answered so far that came from the client
RequestsOf(ip) == {m \in 1..Len(responses) : RateClient(responses[m].request) = ip}

\* the latest request of the client answered so far
LatestOf(ip) == CHOOSE m \in RequestsOf(ip) : \A k \in RequestsOf(ip) : k <= m

\* the client has been rejected in its latest window
RejectedInWindow(ip) ==
    /\ RequestsOf(ip) # {}
    /\ \E m \in RequestsOf(ip) :
          ~responses[m].called_next /\ WindowOf(m) = WindowOf(LatestOf(ip))

\* C23: once a client has reached the limit and been rejected, its first
\* request that arrives more than RATE_LIMIT_WINDOW seconds after the start
\* of its window is passed through, and starts a new window at its arrival
\* time whose count holds that request alone; a rejected request leaves the
\* count and the window start of every client as they were.
C23_WindowReset ==
    [][Len(responses') = Len(responses) + 1 =>
         LET answer == responses'[Len(responses')]
             ip == AnsweredClient
         IN  /\ (/\ RejectedInWindow(ip)
                 /\ answer.time - WindowOf(LatestOf(ip)) > settings.RATE_LIMIT_WINDOW)
                  => /\ answer.called_next
                     /\ answer.response = AppResponse
                     /\ rate_limit_store'[ip] = [count |-> 1, window_start |-> answer.time]
             /\ ~answer.called_next
                  => /\ ip \in DOMAIN rate_limit_store
                     /\ rate_limit_store' = rate_limit_store]_vars

\* a client was rejected at the very end of its window (exactly
\* RATE_LIMIT_WINDOW seconds after its start), came back one second later
\* and was passed, and its new window starts at that request
C23_Witness ==
    /\ Len(responses) >= 3
    /\ \E m \in 1..(Len(responses) - 1) :
          LET n == Len(responses)
          IN  /\ RateClient(responses[m].request) = RateClient(responses[n].request)
              /\ ~responses[m].called_next
              /\ responses[m].time = WindowOf(m) + settings.RATE_LIMIT_WINDOW
              /\ responses[n].time = responses[m].time + 1
              /\ responses[n].called_next
              /\ rate_limit_store[RateClient(responses[n].request)]
                     = [count |-> 1, window_start |-> responses[n].time]

(***************************************************************************)
(* C24  The order of the stages of one run.                                *)
(***************************************************************************)
\* the positions of the per-file analysis of the second pass
PerFileStage == {"analyze", "js_cx", "smells", "js_long"}

\* where an issue's stage puts it in the report
StageRank(issue) ==
    IF issue.issue_type = "dependency" THEN 3
    ELSE IF issue.issue_type = "duplication" THEN 2
    ELSE 1

\* per-file issues, then duplication issues, then dependency issues
InStageOrder(issues) ==
    \A i, j \in 1..Len(issues) : i < j => StageRank(issues[i]) <= StageRank(issues[j])

\* C24: a run collects the files, then loads every one of them, and starts
\* the per-file analysis only after the last load; duplication detection
\* runs once, after the last per-file analysis, on the Corpus holding every
\* readable collected file; dependency analysis runs once, after it; scoring
\* runs once, last; the report lists per-file issues, then duplication
\* issues, then dependency issues.
C24_StageOrder ==
    [][/\ (pc \in {"idle", "route"} /\ pc' \notin {"idle", "route", "done"})
            => /\ code_files' = CollectFiles(world, args)
               /\ pc' = IF code_files' = <<>> THEN "dup" ELSE "load"
               /\ file_contents' = <<>> /\ all_issues' = <<>>
       /\ pc = "load"
            => /\ pc' = IF idx = Len(code_files) THEN "analyze" ELSE "load"
               /\ all_issues' = all_issues /\ files_analyzed' = files_analyzed
               /\ pc' = "analyze"
                    => file_contents' = FreshContents(world, code_files, <<>>)
       /\ pc \in PerFileStage
            => /\ pc' \in PerFileStage \cup {"dup"}
               /\ file_contents' = file_contents
               /\ pc' = "dup" => idx = Len(code_files)
               /\ InStageOrder(all_issues') /\ \A k \in 1..Len(all_issues') :
                                                  StageRank(all_issues'[k]) = 1
       /\ pc = "dup"
            => /\ pc' = "deps"
               /\ files_analyzed + Len(failed) = Len(code_files)
               /\ file_contents = FreshContents(world, code_files, <<>>)
               /\ all_issues' = all_issues \o _detect_duplication(file_contents, hash_seed)
               /\ file_contents' = file_contents /\ files_analyzed' = files_analyzed
       /\ pc = "deps"
            => /\ pc' = "score"
               /\ all_issues' = all_issues
                      \o _analyze_dependencies(Requirements(world), PackageJson(world))
               /\ file_contents' = file_contents /\ files_analyzed' = files_analyzed
       /\ pc = "score"
            => /\ pc' = "done"
               /\ report' = Report(all_issues, files_analyzed)
               /\ InStageOrder(report'.issues)]_vars

\* a finished run whose report holds issues of all three stages
C24_Witness ==
    /\ pc = "done" /\ outcome = "report"
    /\ Len(code_files) >= 2
    /\ \A r \in 1..3 : \E k \in 1..Len(report.issues) : StageRank(report.issues[k]) = r

(***************************************************************************)
(* C25  A run's Corpus is its own while requests overlap.                  *)
(***************************************************************************)
\* C25: from the end of a run's first pass to the end of its duplication
\* detection the shared Corpus holds the readable files that run collected
\* and nothing else, whatever other requests have arrived or been served on
\* the same analyzer meanwhile; the duplication issues of a run are those of
\* the files it collected.
C25_CorpusIsTheRunsOwn ==
    \A t \in DOMAIN tasks :
        /\ tasks[t].pc \in {"analyze", "dup"}
              => file_contents = FreshContents(world, tasks[t].code_files, <<>>)
        /\ tasks[t].pc \in {"deps", "done"}
              => tasks[t].duplication_issues =
                     _detect_duplication(FreshContents(world, tasks[t].code_files, <<>>),
                                         hash_seed)

\* two requests with different files: the second arrived while the first
\* call was between its first pass and its duplication detection; both have
\* returned, one with a duplication issue and one without
C25_Witness ==
    /\ DOMAIN tasks = 1..MaxTasks
    /\ \A t \in 1..MaxTasks : tasks[t].pc = "done"
    /\ \E t, u \in 1..MaxTasks :
          /\ tasks[u].overlapped
          /\ tasks[t].code_files # tasks[u].code_files
          /\ tasks[t].duplication_issues # <<>>
          /\ tasks[u].duplication_issues = <<>>

(***************************************************************************)
(* C26  A Python file that does not parse.                                 *)
(***************************************************************************)
\* the collected .py files that were read and that ast.parse rejects
Unparsed ==
    {k \in 1..Len(code_files) :
        /\ IsPy(code_files[k])
        /\ Read(world, code_files[k]).readable
        /\ Parse(Read(world, code_files[k]).content) = SyntaxError}

RefDeclPos(content) ==
    LET found == {FindFrom(content, kw, 1) : kw \in {"function", "const", "let"}} \ {0}
    IN  CHOOSE p \in found : \A q \in found : p <= q

RefOpenPos(content) == FindFrom(content, "{", RefDeclPos(content))

RefDepth(content, from, to) ==
    Cardinality({k \in from..to : Char(content, k) = "{"})
        - Cardinality({k \in from..to : Char(content, k) = "}"})

RefClosePos(content) ==
    LET open == RefOpenPos(content)
        closed == {p \in open..Len(content) : RefDepth(content, open, p) = 0}
    IN  CHOOSE p \in closed : \A q \in closed : p <= q

RefLine(content, p) == NewlinesBefore(content, p) + 1

\* the bracket strategy has gone through the file
LongJsDone == u_pc = "called" /\ u_input.lang = "js" /\ js.pc = "done"

\* the length measured for the declaration equals d, and so do the length
\* and the lines of the issue, if its length makes it one
LongJsMeasures(first_line, last_line) ==
    /\ js.measured = <<last_line - first_line>>
    /\ Len(js.issues) = IF last_line - first_line > 50 THEN 1 ELSE 0
    /\ \A k \in 1..Len(js.issues) :
          /\ js.issues[k].title[2] = last_line - first_line
          /\ js.issues[k].line_start = first_line
          /\ js.issues[k].line_end = last_line

\* C27 as stated: the length of a declaration found by the bracket strategy
\* is the line distance between the line of its opening brace and the line
\* of the matched closing brace
C27_LengthFromOpeningBrace ==
    LongJsDone =>
        LongJsMeasures(RefLine(u_input.content, RefOpenPos(u_input.content)),
                       RefLine(u_input.content, RefClosePos(u_input.content)))

\* C27 amended: the length of a declaration found by the bracket strategy is
\* the line distance between the line on which the declaration's match
\* starts (its keyword) and the line of the matched closing brace; the two
\* readings differ when the keyword and the opening brace are on different
\* lines
C27_LengthFromDeclaration ==
    LongJsDone =>
        LongJsMeasures(RefLine(u_input.content, RefDeclPos(u_input.content)),
                       RefLine(u_input.content, RefClosePos(u_input.content)))

\* a declaration written over three lines whose braces are 50 lines apart:
\* reported as a long function of 52 lines
C27_Witness ==
    /\ LongJsDone
    /\ RefLine(u_input.content, RefOpenPos(u_input.content))
          = RefLine(u_input.content, RefDeclPos(u_input.content)) + 2
    /\ RefLine(u_input.content, RefClosePos(u_input.content))
          = RefLine(u_input.content, RefOpenPos(u_input.content)) + 50
    /\ Len(js.issues) = 1
    /\ js.issues[1].title[2] = 52

(***************************************************************************)
(* C28  files_analyzed counts entries of the collected list.               *)
(***************************************************************************)
\* the entries of specific_files that exist, one per listing
GivenEntries == SelectSeq(args.specific_files,
                          LAMBDA f : Exists(world, PathJoin(project_path, f)))

\* the per-file issues of a report
PerFileIssues(issues) == SelectSeq(issues, LAMBDA i : i.issue_type \in {"complexity", "smell"})

\* C28: files_analyzed is the number of entries of the collected list whose
\* per-file analysis did not raise, whatever the Corpus holds: an entry that
\* could not be read is analyzed with empty content and counted, and an
\* entry listed twice in specific_files is collected, analyzed and counted
\* twice, its issues appearing twice, while the Corpus holds it once.
C28_CountsCollectedEntries ==
    (pc = "done" /\ outcome = "report") =>
        /\ report.files_analyzed = Len(code_files) - Len(failed)
        /\ args.specific_files # <<>> => Len(code_files) = Len(GivenEntries)
        /\ \A k \in 1..Len(code_files) :
              ~Read(world, code_files[k]).readable
                 => ContentOf(file_contents, RelPath(code_files[k], project_path)) = ""
        /\ failed = <<>> =>
              PerFileIssues(report.issues) =
                  Flatten([k \in 1..Len(code_files) |->
                              FreshFileIssues(code_files[k], file_contents, hash_seed)])
        /\ Len(file_contents) =
              Cardinality({RelPath(code_files[k], project_path) :
                             k \in {j \in 1..Len(code_files) :
                                       Read(world, code_files[j]).readable}})

\* a file listed twice and an unreadable file: three files analyzed, the
\* long function reported twice, one entry in the Corpus
C28_Witness ==
    /\ pc = "done" /\ outcome = "report" /\ failed = <<>>
    /\ Len(code_files) = 3
    /\ code_files[1] = code_files[3]
    /\ ~Read(world, code_files[2]).readable
    /\ report.files_analyzed = 3
    /\ Len(file_contents) = 1
    /\ Len(PerFileIssues(report.issues)) = 2
    /\ report.issues[1] = report.issues[2]

(***************************************************************************)
(* C29  The scores are monotone in the issue list.                         *)
(***************************************************************************)
\* the issue list without its k-th issue
WithoutIssue(issues, k) == SubSeq(issues, 1, k - 1) \o SubSeq(issues, k + 1, Len(issues))

ScoreNames == {"overall", "complexity", "duplication", "dependency"}

\* one position for each different issue of the list (the scores do not
\* depend on which of two equal issues is left out)
FirstOfEachKind(issues) ==
    {k \in 1..Len(issues) : \A j \in 1..(k - 1) : issues[j] # issues[k]}

\* C29: for files_analyzed >= 1, none of the four scores of an issue list
\* is higher than the score of the list with any one of its issues left out
\* (adding an issue never raises a score), and the overall score lies
\* between the lowest and the highest of the three category scores.
C29_ScoresMonotone ==
    (sc_scores # None /\ sc_files >= 1) =>
        /\ \A k \in FirstOfEachKind(sc_issues) :
              LET less == _calculate_scores(WithoutIssue(sc_issues, k), sc_files)
              IN  \A name \in ScoreNames : sc_scores[name] <= less[name]
        /\ \E low, high \in {sc_scores.complexity, sc_scores.duplication,
                             sc_scores.dependency} :
              low <= sc_scores.overall /\ sc_scores.overall <= high

\* the list of C4's rounding case: overall 59 with category scores 6, 96, 96,
\* where leaving out one critical issue gives a strictly higher overall score
C29_Witness ==
    /\ sc_scores # None /\ sc_files = 5 /\ Len(sc_issues) = 6
    /\ sc_scores.complexity = 6 /\ sc_scores.duplication = 96
    /\ sc_scores.overall = 59
    /\ _calculate_scores(WithoutIssue(sc_issues, 1), sc_files).overall > 59

(***************************************************************************)
(* C30  The files of a run lie inside the root.                            *)
(***************************************************************************)
\* the path names a place in the tree under root
InsideRoot(path, root) ==
    LET parts == PathParts(path)
        base == PathParts(root)
    IN  Len(parts) >= Len(base) /\ SubSeq(parts, 1, Len(base)) = base

\* C30: every file a run collects, loads into the Corpus or analyzes lies
\* inside the tree under root_path, whether the files were found by the
\* traversal or named in specific_files (absolute entries and entries with
\* '..' components included).
C30_FilesInsideRoot ==
    pc \notin {"off", "idle", "route"} =>
        /\ \A k \in 1..Len(code_files) : InsideRoot(code_files[k], project_path)
        /\ \A e \in 1..Len(file_contents) :
              InsideRoot(PathJoin(project_path, file_contents[e][1]), project_path)
        /\ \A n \in 1..Len(all_issues) :
              InsideRoot(PathJoin(project_path, all_issues[n].file_path), project_path)

====
